---- MODULE Spec2Model ----
(***************************************************************************)
(* Model of the embedding model manager (server/services/model_manager.py),*)
(* of the multi-field combiner (server/services/multi_field_service.py)    *)
(* and of the embedding service (server/services/embedding_service.py).    *)
(*                                                                         *)
(* Scheduling.  Every handler is an asyncio coroutine on one event loop.   *)
(* A coroutine gives up the loop only where it awaits something that       *)
(* really suspends; in ModelManager that is the HTTP fetch of an image URL *)
(* (model_manager.py:364-367).  load_model, _ensure_memory_available,      *)
(* unload_model and the loaders await only coroutines that never suspend,  *)
(* so while a task is inside one of them (Busy) no other task takes a     *)
(* step.                                                                   *)
(*                                                                         *)
(* Libraries.  Constructors of the model libraries may raise, and so may    *)
(* the move of a model to the device (the code handles that with its       *)
(* fallback chain); the values they return are of                          *)
(* the types the libraries declare, so the Optional[int] of                *)
(* get_sentence_embedding_dimension may be None.                           *)
(***************************************************************************)
EXTENDS Integers, Sequences, FiniteSets, TLC

\* ------------------------------------------------------------------ bounds
MaxCapacity == 2
NumTasks == 2

\* ------------------------------------------------------------- vocabulary
None == "None"
Tasks == 1..NumTasks

TEXT == "text"
IMAGE == "image"
MULTIMODAL == "multimodal"
ModelType == {TEXT, IMAGE, MULTIMODAL}

MiniLM == "sentence-transformers/all-MiniLM-L6-v2"
ClipB32 == "openai/clip-vit-base-patch32"
MarqoB == "Marqo/marqo-ecommerce-embeddings-B"
StClip == "sentence-transformers/clip-ViT-B-32"
Custom == "acme/custom-clip"
OddClip == "acme/odd-clip"
\* the names requests are made for, and the names the loader is studied on
Names == {MiniLM, ClipB32, Custom}
LoaderNames == Names \cup {StClip, MarqoB, OddClip}

\* self._available_models, restricted to the names of the model
available_models ==
    (MiniLM :> [type |-> TEXT, dimensions |-> 384, use_auto_model |-> FALSE,
                force_sentence_transformers |-> FALSE])
    @@ (ClipB32 :> [type |-> MULTIMODAL, dimensions |-> 512, use_auto_model |-> FALSE,
                    force_sentence_transformers |-> FALSE])
    @@ (StClip :> [type |-> MULTIMODAL, dimensions |-> 512, use_auto_model |-> FALSE,
                   force_sentence_transformers |-> FALSE])
    @@ (MarqoB :> [type |-> MULTIMODAL, dimensions |-> 768, use_auto_model |-> TRUE,
                   force_sentence_transformers |-> FALSE])

InRegistry(name) == name \in DOMAIN available_models

\* "sentence-transformers" in model_name
STNamed(name) == name \in {MiniLM, StClip}

\* the open_clip alias chosen from the lower-cased name; None when no branch matches
OpenClipAlias(name) ==
    IF name = MarqoB THEN "ViT-B-16-SigLIP" ELSE None

\* What the model libraries report for a checkpoint: the sentence-transformers
\* embedding dimension, the first size attribute of the CLIP configuration, and
\* the width of the vectors the loaded model produces.
\* get_sentence_embedding_dimension() is Optional[int]: it returns None (here
\* 0) when no module of the model reports a dimension, as for a CLIP
\* checkpoint that SentenceTransformer wraps.
Hub ==
    (MiniLM :> [st_dim |-> 384, config_dim |-> 384, out_dim |-> 384])
    @@ (ClipB32 :> [st_dim |-> 512, config_dim |-> 512, out_dim |-> 512])
    @@ (StClip :> [st_dim |-> 0, config_dim |-> 512, out_dim |-> 512])
    @@ (MarqoB :> [st_dim |-> 768, config_dim |-> 768, out_dim |-> 768])
    @@ (Custom :> [st_dim |-> 0, config_dim |-> 512, out_dim |-> 512])
    @@ (OddClip :> [st_dim |-> 768, config_dim |-> 1024, out_dim |-> 768])

VARIABLES
    capacity,     \* settings.max_models_in_memory
    models,       \* self._models: OrderedDict, first = least recently used
    model_info,   \* self._model_info
    pc,           \* where each request handler stands
    req,          \* the request a handler in progress serves
    held,         \* model_data a suspended get_embedding holds on to
    last_used,    \* order of the resident names' most recent uses (0: not resident)
    last,         \* the outcome of the call that ended last
    lin,          \* a call of the loader on its own: arguments
    lout,         \*   and result
    joined,       \* the waiting calls for whose name a load has gone in flight
    cin,          \* a call of the combiner alone: its arguments
    cout,         \*   and result
    ein,          \* a request to the embedding service: its arguments and progress
    eout,         \*   and result
    at_entry,     \* the cache as the load in progress found it
    bin,          \* a call of generate_batch_embeddings: its arguments and progress
    bout,         \*   and result
    sin,          \* a registration of a vector column, a save: its arguments
    sout,         \*   and result
    rin,          \* a similarity search alone: its arguments
    rout,         \*   and result
    gin,          \* a recommendation request alone: the request, what the database holds
    gout,         \*   and the outcome of stage 1 and of the request
    fin,          \* a request to the embedding services on the manager: its progress
    fout          \*   and result

vars == <<capacity, models, model_info, pc, req, held, last_used, last, lin, lout, joined,
          cin, cout, ein, eout, at_entry, bin, bout, sin, sout, rin, rout,
          gin, gout, fin, fout>>

\* the calls made alone that a specification does not draw
others == <<bin, bout, sin, sout, rin, rout, gin, gout, fin, fout>>

\* the requests to the services
services == <<gin, gout, fin, fout>>

\* --------------------------------------------------------- OrderedDict
Resident(ms) == {ms[i].name : i \in DOMAIN ms}

IndexOf(ms, name) == CHOOSE i \in DOMAIN ms : ms[i].name = name

Lookup(ms, name) == ms[IndexOf(ms, name)].data

\* del d[name]
Delete(ms, name) ==
    LET i == IndexOf(ms, name)
    IN  SubSeq(ms, 1, i - 1) \o SubSeq(ms, i + 1, Len(ms))

\* a recency update that is left out
MoveToEnd_Forgotten(ms, name) == ms

\* d.move_to_end(name)
MoveToEnd(ms, name) ==
    LET i == IndexOf(ms, name)
    IN  Delete(ms, name) \o <<ms[i]>>

\* d[name] = data: an existing key keeps its position, a new key goes last
SetItem(ms, name, data) ==
    IF name \in Resident(ms)
    THEN [ms EXCEPT ![IndexOf(ms, name)].data = data]
    ELSE Append(ms, [name |-> name, data |-> data])

NamesOf(ms) == [i \in DOMAIN ms |-> ms[i].name]

\* ------------------------------------------------------------------ Loader
ST == "sentence_transformers"
OPEN_CLIP == "open_clip"
CLIP_MODEL == "clip_model"
PROCESSOR_FAST == "processor_fast"
PROCESSOR_SLOW == "processor_slow"

\* an entry of _models: `model` is the library whose object is stored under
\* "model", is_open_clip the key of that name
NoData ==
    [model |-> None, is_open_clip |-> FALSE, type |-> None, dimensions |-> 0,
     out_dim |-> 0, id |-> 0]

\* One draw of what the libraries do during a load call: which constructors
\* succeed (st1, st2: the first and the second SentenceTransformer
\* construction of the call), whether the CLIP model is moved to the device
\* (to_device: model.to(self._device) of line 230), and how far the
\* dimension lookup of a CLIP model gets.  A SentenceTransformer or
\* open_clip attempt is the construction together with the move to the
\* device and the read of the dimension that follow it at once: a failure
\* of any of them leaves the attempt the same way.  A field the call cannot
\* come to read, given the fields read before it, is held at its first
\* value, so that each course of a call is drawn once.
LoaderEnvs ==
    {e \in [open_clip : BOOLEAN, st1 : BOOLEAN, st2 : BOOLEAN, clip : BOOLEAN,
            fast : BOOLEAN, slow : BOOLEAN, to_device : BOOLEAN,
            dimsrc : {"config", "probe", "none"}] :
        /\ ~e.clip => e.fast /\ e.slow
        /\ e.fast => e.slow
        /\ ~(e.clip /\ e.slow) => e.to_device
        /\ (e.clip /\ e.slow /\ e.to_device) => e.st1
        /\ (e.st1 \/ e.slow) => e.st2
        /\ ~(e.clip /\ e.slow /\ e.to_device) => e.dimsrc = "config"
        /\ ~e.open_clip => (e.clip /\ e.fast /\ e.to_device /\ e.dimsrc = "config")}

Att(s, ok) == [s |-> s, ok |-> ok]

\* the dict a loader returns for the object `model`; only the return of
\* lines 174-181 has the key is_open_clip
Loaded(model, type, dimensions, out_dim, attempts) ==
    [ok |-> TRUE,
     data |-> [model |-> model, is_open_clip |-> FALSE, type |-> type,
               dimensions |-> dimensions, out_dim |-> out_dim, id |-> 0],
     attempts |-> attempts, reported |-> <<>>]

\* the return of the open_clip branch (lines 174-181)
LoadedOpenClip(dimensions, out_dim, attempts) ==
    [Loaded(OPEN_CLIP, MULTIMODAL, dimensions, out_dim, attempts)
        EXCEPT !.data.is_open_clip = TRUE]

\* the exception that leaves the loader carries the reasons of `reported`
Raised(attempts, reported) ==
    [ok |-> FALSE, data |-> NoData, attempts |-> attempts, reported |-> reported]

\* SentenceTransformer(model_name); model.get_sentence_embedding_dimension()
STData(name, type, attempts) ==
    Loaded(ST, type, Hub[name].st_dim, Hub[name].out_dim, attempts)

_load_text_model(name, env) ==
    IF env.st1
    THEN STData(name, TEXT, <<Att(ST, TRUE)>>)
    ELSE Raised(<<Att(ST, FALSE)>>, <<ST>>)

\* a resolution that takes the test encoding before the configuration
ClipDimensions_ProbeFirst(name, env) ==
    CASE env.dimsrc \in {"config", "probe"} -> Hub[name].out_dim
      [] OTHER -> IF InRegistry(name) THEN available_models[name].dimensions ELSE 512

\* dimensions of a raw CLIP model: configuration, else test encoding, else
\* the registry, else 512
ClipDimensions(name, env) ==
    CASE env.dimsrc = "config" -> Hub[name].config_dim
      [] env.dimsrc = "probe" -> Hub[name].out_dim
      [] OTHER -> IF InRegistry(name) THEN available_models[name].dimensions ELSE 512

\* the handler `except Exception as model_error`: SentenceTransformer, unguarded
ModelErrorFallback(name, ok, before) ==
    IF ok
    THEN STData(name, MULTIMODAL, before \o <<Att(ST, TRUE)>>)
    ELSE Raised(before \o <<Att(ST, FALSE)>>, <<ST>>)

\* lines 230-256, with the CLIP model and a processor constructed: the
\* model is moved to the device and its dimensions are looked up; the move
\* is inside the outer try, so its failure goes to the handler `except
\* Exception as model_error`
MovedToDevice(name, env, constructed) ==
    IF env.to_device
    THEN Loaded(CLIP_MODEL, MULTIMODAL, ClipDimensions(name, env), Hub[name].out_dim,
                constructed)
    ELSE ModelErrorFallback(name, env.st1, constructed)

\* the branch for raw CLIP models
LoadRawClip(name, env) ==
    IF ~env.clip
    THEN ModelErrorFallback(name, env.st1, <<Att(CLIP_MODEL, FALSE)>>)
    ELSE IF env.fast
    THEN MovedToDevice(name, env, <<Att(CLIP_MODEL, TRUE), Att(PROCESSOR_FAST, TRUE)>>)
    ELSE IF env.slow
    THEN MovedToDevice(name, env, <<Att(CLIP_MODEL, TRUE), Att(PROCESSOR_FAST, FALSE),
                                    Att(PROCESSOR_SLOW, TRUE)>>)
    ELSE LET tried == <<Att(CLIP_MODEL, TRUE), Att(PROCESSOR_FAST, FALSE),
                        Att(PROCESSOR_SLOW, FALSE)>>
         IN  IF env.st1
             THEN STData(name, MULTIMODAL, tried \o <<Att(ST, TRUE)>>)
             \* `raise tokenizer_error` is raised inside the outer try, so the
             \* outer handler runs and constructs SentenceTransformer again
             ELSE ModelErrorFallback(name, env.st2, tried \o <<Att(ST, FALSE)>>)

\* a loader that goes on to SentenceTransformer when open_clip fails
_load_multimodal_model_AutoFallsBack(name, env) ==
    IF env.open_clip /\ OpenClipAlias(name) # None
    THEN LoadedOpenClip(768, Hub[name].out_dim, <<Att(OPEN_CLIP, TRUE)>>)
    ELSE ModelErrorFallback(name, env.st1, <<Att(OPEN_CLIP, FALSE)>>)

_load_multimodal_model(name, env) ==
    LET cfg == IF InRegistry(name) THEN available_models[name]
               ELSE [use_auto_model |-> FALSE, force_sentence_transformers |-> FALSE,
                     dimensions |-> 768]
    IN  IF cfg.use_auto_model
        THEN IF OpenClipAlias(name) = None
             THEN Raised(<<>>, <<>>)
             ELSE IF env.open_clip
             THEN LoadedOpenClip(cfg.dimensions, Hub[name].out_dim, <<Att(OPEN_CLIP, TRUE)>>)
             ELSE Raised(<<Att(OPEN_CLIP, FALSE)>>, <<OPEN_CLIP>>)
        ELSE IF STNamed(name) \/ cfg.force_sentence_transformers
        THEN IF env.st1
             THEN STData(name, MULTIMODAL, <<Att(ST, TRUE)>>)
             ELSE Raised(<<Att(ST, FALSE)>>, <<ST>>)
        ELSE LoadRawClip(name, env)

\* the dispatch on model_type in load_model
Loader(name, model_type, env) ==
    IF model_type = TEXT THEN _load_text_model(name, env)
    ELSE IF model_type \in {IMAGE, MULTIMODAL} THEN _load_multimodal_model(name, env)
    ELSE Raised(<<>>, <<>>)

\* model_data.get("is_open_clip")
is_open_clip(data) == data.is_open_clip

\* the libraries whose model objects have an attribute `encode`: a
\* SentenceTransformer has, a CLIPModel (get_text_features,
\* get_image_features) and an open_clip model (encode_text, encode_image)
\* have not
Encoders == {ST}

\* hasattr(model, 'encode'), asked of the object stored in the entry
HasEncode(data) == data.model \in Encoders

\* a dispatch that looks at the is_open_clip key alone
InferencePath_KeyOnly(data) ==
    IF is_open_clip(data) THEN OPEN_CLIP ELSE CLIP_MODEL

\* the if-chain of _get_text_embeddings and of _get_image_embeddings, run
\* on the entry at each call: the path whose branch is taken.  No loader
\* sets is_auto_model, so the third branch is never taken
InferencePath(data) ==
    IF is_open_clip(data) THEN OPEN_CLIP
    ELSE IF HasEncode(data) THEN ST
    ELSE CLIP_MODEL

\* what a loader call can come to, over the courses the libraries can take
LoaderOutcomes(name, model_type) ==
    {[ok |-> Loader(name, model_type, env).ok, data |-> Loader(name, model_type, env).data] :
        env \in LoaderEnvs}

\* ---------------------------------------------------------------- combiner
MaxFields == 2

\* the values of CombineMethod (models/embeddings.py), None for the Optional
\* field, and the string the dispatch of _combine_embeddings tests for
WEIGHTED_AVERAGE == "weighted_average"
CONCATENATE == "concatenate"
MAX_POOL == "max_pool"
SUM == "sum"
MAX_POOLING == "max_pooling"
CombineMethod == {WEIGHTED_AVERAGE, CONCATENATE, MAX_POOL, SUM}
Methods == CombineMethod \cup {None, MAX_POOLING}

\* field embeddings of one or two components, field weights
Components == {-1, 2}
Vectors == UNION {[1..d -> Components] : d \in 1..2}
Weights == {0, 1, 2}

\* a component of a combined vector: the number n / d (d = 0: numpy's
\* division by zero, nan or inf, which raises nothing)
Frac(n, d) == [n |-> n, d |-> d]

\* a combined vector [vec, over] stands for vec / sqrt(over); the combiner
\* itself divides by no norm (over = 1)
Combined(vec) == [ok |-> TRUE, err |-> None, vec |-> vec, over |-> Frac(1, 1)]
CombineFails(err) == [ok |-> FALSE, err |-> err, vec |-> <<>>, over |-> Frac(1, 1)]

\* the sum of the numbers of a sequence, by halves
RECURSIVE SumSeq(_)
SumSeq(s) ==
    IF s = <<>> THEN 0
    ELSE IF Len(s) = 1 THEN s[1]
    ELSE LET half == Len(s) \div 2
         IN  SumSeq(SubSeq(s, 1, half)) + SumSeq(SubSeq(s, half + 1, Len(s)))

RECURSIVE Flatten(_)
Flatten(ss) == IF ss = <<>> THEN <<>> ELSE ss[1] \o Flatten(Tail(ss))

Max(S) == CHOOSE x \in S : \A y \in S : y <= x

\* a reconciliation that pads with ones
Processed_Ones(embedding, target_dim) ==
    [i \in 1..target_dim |-> IF i <= Len(embedding) THEN embedding[i] ELSE 1]

\* pad with zeros or truncate to the dimension of the first embedding
Processed(embedding, target_dim) ==
    [i \in 1..target_dim |-> IF i <= Len(embedding) THEN embedding[i] ELSE 0]

\* a concatenation that forgets the weights
Scaled_Unweighted(embedding, weight) == embedding

\* [x * weight for x in embedding]
Scaled(embedding, weight) == [i \in DOMAIN embedding |-> embedding[i] * weight]

\* a weighted sum whose weights are not brought to sum 1
_weighted_average_Unnormalized(embeddings, weights) ==
    IF embeddings = <<>>
    THEN CombineFails("IndexError")
    ELSE Combined([i \in 1..Len(embeddings[1]) |->
             Frac(SumSeq([j \in DOMAIN embeddings |->
                     Processed(embeddings[j], Len(embeddings[1]))[i] * weights[j]]), 1)])

_weighted_average(embeddings, weights) ==
    IF embeddings = <<>>
    THEN CombineFails("IndexError")
    ELSE LET target_dim == Len(embeddings[1])
             processed == [j \in DOMAIN embeddings |-> Processed(embeddings[j], target_dim)]
             total == SumSeq(weights)
         IN  Combined([i \in 1..target_dim |->
                 Frac(SumSeq([j \in DOMAIN embeddings |-> processed[j][i] * weights[j]]),
                      total)])

_concatenate(embeddings, weights) ==
    LET scaled == Flatten([j \in DOMAIN embeddings |-> Scaled(embeddings[j], weights[j])])
    IN  Combined([i \in DOMAIN scaled |-> Frac(scaled[i], 1)])

_max_pooling(embeddings, weights) ==
    IF embeddings = <<>>
    THEN CombineFails("IndexError")
    ELSE LET scaled == [j \in DOMAIN embeddings |-> Scaled(embeddings[j], weights[j])]
             target_dim == Len(scaled[1])
             processed == [j \in DOMAIN scaled |-> Processed(scaled[j], target_dim)]
         IN  Combined([i \in 1..target_dim |->
                 Frac(Max({processed[j][i] : j \in DOMAIN processed}), 1)])

_combine_embeddings(embeddings, weights, method) ==
    IF method = WEIGHTED_AVERAGE THEN _weighted_average(embeddings, weights)
    ELSE IF method = CONCATENATE THEN _concatenate(embeddings, weights)
    ELSE IF method = MAX_POOLING THEN _max_pooling(embeddings, weights)
    ELSE CombineFails("Unsupported combine method")

NoCombine ==
    [embeddings |-> <<>>, weights |-> <<>>, method |-> None, normalize |-> FALSE,
     done |-> FALSE]

\* ------------------------------------------------------- vectors and norms
\* A vector is kept as its components and the number its components are
\* all divided by the square root of: [vec, over] stands for
\* vec / sqrt(over).  over = 1: not divided; over.n = 0: divided by a zero
\* norm (nan).
One == Frac(1, 1)

Scalars(raw) == [i \in DOMAIN raw |-> Frac(raw[i], 1)]

\* the squared Euclidean length of components of one denominator
NormSq(vec) ==
    IF vec = <<>> THEN Frac(0, 1)
    ELSE Frac(SumSeq([i \in DOMAIN vec |-> vec[i].n * vec[i].n]), vec[1].d * vec[1].d)

\* `norm > 0`: false for the zero vector and for nan
NormPositive(x) ==
    LET norm == NormSq(x.vec)
    IN  x.over.n > 0 /\ norm.n > 0 /\ norm.d > 0

\* embedding_array / norm if norm > 0, else the array as it is
L2Normalized(x) == IF NormPositive(x) THEN [x EXCEPT !.over = NormSq(x.vec)] ELSE x

\* MultiFieldService._normalize_embedding without its test of the norm
_normalize_embedding_Unguarded(x) == [x EXCEPT !.over = NormSq(x.vec)]

\* MultiFieldService._normalize_embedding
_normalize_embedding(x) ==
    IF NormPositive(x) THEN [x EXCEPT !.over = NormSq(x.vec)] ELSE x

\* generate_multi_field_embeddings from the combination on
generate_multi_field_embeddings(r) ==
    LET combined == _combine_embeddings(r.embeddings, r.weights, r.method)
    IN  IF combined.ok /\ r.normalize THEN _normalize_embedding(combined) ELSE combined

\* ------------------------------------------------------ embedding service
MaxBatch == 2

\* what a backend computes for one input before any normalization
RawVectors == Vectors \cup {<<0, 0>>}

\* what becomes of one image of a batch: base64 that is decoded, a URL that
\* is downloaded, a URL whose download fails, base64 that is no image
ImageOutcomes == {"ok", "fetched", "fetch_failed", "decode_failed"}

\* the image was appended to processed_images
Usable(outcome) == outcome \in {"ok", "fetched"}

\* the inference of one input by the backend of a loaded model:
\* open_clip divides by the norm, SentenceTransformer is called with
\* normalize_embeddings=True, raw CLIP features are returned as they are
Inferred(backend, raw) ==
    LET x == [vec |-> Scalars(raw), over |-> One]
    IN  CASE backend = OPEN_CLIP -> [x EXCEPT !.over = NormSq(x.vec)]
          [] backend = ST -> L2Normalized(x)
          [] OTHER -> x

Embedded(vecs) == [ok |-> TRUE, err |-> None, index |-> 0, vecs |-> vecs, inferences |-> 1]
EmbedFails(err, index) ==
    [ok |-> FALSE, err |-> err, index |-> index, vecs |-> <<>>, inferences |-> 0]

_get_text_embeddings(backend, texts, raw) ==
    Embedded([i \in DOMAIN texts |-> Inferred(backend, raw)])

\* the image at which the loop over the batch stops
FirstFailure(images) ==
    CHOOSE i \in DOMAIN images :
       ~Usable(images[i]) /\ \A j \in DOMAIN images : j < i => Usable(images[j])

\* `for i, img_data in enumerate(images)`: indices count from 0
_get_image_embeddings(backend, images, raw) ==
    IF \E i \in DOMAIN images : ~Usable(images[i])
    THEN EmbedFails("Failed to process image", FirstFailure(images) - 1)
    ELSE Embedded([i \in DOMAIN images |-> Inferred(backend, raw)])

_normalize_embeddings(vecs) == [i \in DOMAIN vecs |-> L2Normalized(vecs[i])]

\* generate_text_embeddings, generate_image_embeddings: the vectors of the
\* model of backend r.backend for the items of r, normalized when asked
generate_embeddings(r) ==
    LET got == IF r.ctype = TEXT
               THEN _get_text_embeddings(r.backend, r.items, r.raw)
               ELSE _get_image_embeddings(r.backend, r.items, r.raw)
    IN  IF got.ok /\ r.normalize
        THEN [got EXCEPT !.vecs = _normalize_embeddings(got.vecs)]
        ELSE got

\* a request to the embedding service: model_name is Optional; backend is
\* that of the model get_embedding picked, once it has picked one
NoEmbed ==
    [name |-> None, backend |-> None, ctype |-> None, items |-> <<>>, raw |-> <<>>,
     normalize |-> FALSE, stage |-> "none"]

\* ------------------------------------------------------------------ batches
MaxRequests == 3

\* settings.max_batch_size
max_batch_size == 32

\* the classes of the members of BatchEmbeddingRequest.requests
TextEmbeddingRequest == "TextEmbeddingRequest"
ImageEmbeddingRequest == "ImageEmbeddingRequest"
MultiFieldEmbeddingRequest == "MultiFieldEmbeddingRequest"

\* the requests a batch is made of: texts, images that load, images of which
\* one does not load, fields to combine
BatchMembers ==
    {[class |-> TextEmbeddingRequest, name |-> None, backend |-> None, ctype |-> TEXT,
      items |-> <<"ok">>, raw |-> <<2>>, normalize |-> TRUE],
     [class |-> ImageEmbeddingRequest, name |-> None, backend |-> None, ctype |-> IMAGE,
      items |-> <<"fetched">>, raw |-> <<-1, 2>>, normalize |-> FALSE],
     [class |-> ImageEmbeddingRequest, name |-> None, backend |-> None, ctype |-> IMAGE,
      items |-> <<"ok", "fetch_failed">>, raw |-> <<-1, 2>>, normalize |-> FALSE],
     [class |-> MultiFieldEmbeddingRequest, name |-> None, backend |-> None, ctype |-> None,
      items |-> <<"ok">>, raw |-> <<2>>, normalize |-> TRUE]}

BatchDone(responses) == [ok |-> TRUE, err |-> None, at |-> 0, responses |-> responses]
BatchFails(err, at) == [ok |-> FALSE, err |-> err, at |-> at, responses |-> <<>>]

\* one turn of the loop raises: the request is of neither class, or its
\* embeddings cannot be made
MemberFails(request) ==
    \/ request.class \notin {TextEmbeddingRequest, ImageEmbeddingRequest}
    \/ ~generate_embeddings(request).ok

MemberError(request) ==
    IF request.class \notin {TextEmbeddingRequest, ImageEmbeddingRequest}
    THEN "Unsupported request type"
    ELSE generate_embeddings(request).err

\* a call of generate_batch_embeddings: the request the loop is at and the
\* `results` it has so far
NoBatch == [requests |-> <<>>, pos |-> 1, results |-> <<>>, stage |-> "none"]

\* ------------------------------------------------- vector column settings
\* get_model_dimensions: the loaded model first, then the registry
get_model_dimensions(ms, name) ==
    IF name \in Resident(ms) THEN Lookup(ms, name).dimensions
    ELSE IF InRegistry(name) THEN available_models[name].dimensions
    ELSE 0

\* the parameters of DatabaseInitializer.save_vector_column_settings, and
\* the keywords save_vector_column_metadata calls it with
save_vector_column_settings_parameters ==
    {"table_name", "column_name", "model_name", "combined_fields"}

save_vector_column_settings_keywords ==
    {"table_name", "column_name", "model_name", "dimensions", "knn_type",
     "similarity_metric", "combined_fields"}

\* a Python call binds its keywords to parameters of those names; a keyword
\* left over is a TypeError
Binds(keywords, parameters) == keywords \subseteq parameters

\* a row of manager_vector_column_settings (id and the times left out)
Row(table_name, column_name, model_name, combined_fields) ==
    [tbl_name |-> table_name, col_name |-> column_name, mdl_name |-> model_name,
     combined_fields |-> combined_fields]

\* a dict of field weights, and json.dumps of it
WEIGHTS == "weights"
JSON_WEIGHTS == "json of weights"

\* a text that is no JSON document
NOT_JSON == "not json"

\* json.dumps(combined_fields) of a dict
json_dumps(obj) == CASE obj = WEIGHTS -> JSON_WEIGHTS

\* json.loads(s): the object of a JSON text; TypeError for what is no str,
\* JSONDecodeError for a text that is no JSON
json_loads(s) ==
    IF s = JSON_WEIGHTS THEN [raised |-> None, value |-> WEIGHTS]
    ELSE IF s = NOT_JSON THEN [raised |-> "JSONDecodeError", value |-> None]
    ELSE [raised |-> "TypeError", value |-> None]

isinstance_str(cell) == cell \in {JSON_WEIGHTS, NOT_JSON}

\* lines 229-235: NULL for no fields, the JSON text of the fields otherwise
combined_fields_value(combined_fields) ==
    IF combined_fields = None THEN None ELSE json_dumps(combined_fields)

\* how the database returns the cell of a json column in _source: as the
\* text that was written, or as the object it has made of the text (the
\* case get_table_vector_columns tests for with isinstance)
JsonForms == {"text", "object"}

\* the cell _source returns for the value written into the column
Cell(value, db) ==
    IF value = None \/ db.json = "text" THEN value ELSE json_loads(value).value

\* what a call on the settings left: its outcome and the rows of the table;
\* proxied counts the statements that came to the table through the proxy
Saved(rows) == [ok |-> TRUE, err |-> None, rows |-> rows, proxied |-> 0]
SaveFails(err, rows) == [ok |-> FALSE, err |-> err, rows |-> rows, proxied |-> 0]

\* UPDATE ... WHERE tbl_name = ... AND col_name = ...
Updated(rows, row) ==
    [i \in DOMAIN rows |->
        IF rows[i].tbl_name = row.tbl_name /\ rows[i].col_name = row.col_name
        THEN row ELSE rows[i]]

\* DatabaseInitializer.save_vector_column_settings: INSERT, and UPDATE when
\* the INSERT raises; db tells which statements the database accepts
save_vector_column_settings(rows, row, db) ==
    LET written == [row EXCEPT
                       !.combined_fields =
                          Cell(combined_fields_value(row.combined_fields), db)]
    IN  IF db.insert THEN Saved(Append(rows, written))
        ELSE IF db.update THEN Saved(Updated(rows, written))
        ELSE SaveFails("HTTPError", rows)

\* DatabaseInitializer.delete_vector_column_settings: DELETE ... WHERE
\* tbl_name = ... AND col_name = ...; accepted tells whether the database
\* takes the statement, and the error of one it rejects is raised again
delete_vector_column_settings(rows, table_name, column_name, accepted) ==
    IF accepted
    THEN Saved(SelectSeq(rows, LAMBDA r : ~(r.tbl_name = table_name /\ r.col_name = column_name)))
    ELSE SaveFails("HTTPError", rows)

\* DatabaseInitializer.delete_table_vector_settings: DELETE ... WHERE
\* tbl_name = ...
delete_table_vector_settings(rows, table_name, accepted) ==
    IF accepted
    THEN Saved(SelectSeq(rows, LAMBDA r : r.tbl_name # table_name))
    ELSE SaveFails("HTTPError", rows)

\* ModelManager.save_vector_column_metadata.  get_model_dimensions reads the
\* loaded model first, so a name of the registry comes to the load_model of
\* lines 466-472 when it is resident with dimensions None.  That call is a
\* hit: it moves the name to the end of _models and returns
\* self._model_info[name], a KeyError when the name has no ModelInfo; when
\* it has one, the dimensions read again are those of the same entry.
\* c.known holds the names that have a ModelInfo.
save_vector_column_metadata(c) ==
    IF get_model_dimensions(c.ms, c.model_name) = 0 /\ InRegistry(c.model_name)
          /\ c.model_name \in Resident(c.ms) /\ c.model_name \notin c.known
    THEN SaveFails("KeyError", c.rows)
    ELSE IF get_model_dimensions(c.ms, c.model_name) = 0
    THEN SaveFails("Cannot determine dimensions for model", c.rows)
    ELSE IF ~Binds(save_vector_column_settings_keywords,
                   save_vector_column_settings_parameters)
    THEN SaveFails("TypeError", c.rows)
    ELSE save_vector_column_settings(
             c.rows, Row(c.table_name, c.column_name, c.model_name, c.combined_fields),
             c.db)

\* lines 294-298: a cell that is truthy goes through json.loads, and
\* combined_fields is None when json.loads raises
Parsed(cell) ==
    IF cell = None THEN cell
    ELSE IF json_loads(cell).raised = None THEN json_loads(cell).value
    ELSE None

\* lines 352-357: the same, but only a str goes through json.loads
ParsedStr(cell) ==
    IF cell = None \/ ~isinstance_str(cell) THEN cell ELSE Parsed(cell)

\* DatabaseInitializer.get_vector_column_settings: the first row selected,
\* with the names the API uses and combined_fields parsed; None (found
\* FALSE) when no row is selected and, by the handler of lines 302-304,
\* when the database does not answer the SELECT
get_vector_column_settings(rows, table_name, column_name, answered) ==
    LET hits == {i \in DOMAIN rows :
                    rows[i].tbl_name = table_name /\ rows[i].col_name = column_name}
    IN  IF ~answered \/ hits = {}
        THEN [found |-> FALSE]
        ELSE LET result == rows[CHOOSE i \in hits : \A j \in hits : i <= j]
             IN  [found |-> TRUE, table_name |-> result.tbl_name,
                  column_name |-> result.col_name, model_name |-> result.mdl_name,
                  combined_fields |-> Parsed(result.combined_fields)]

\* DatabaseInitializer.get_table_vector_columns: the rows of the table, in
\* the order of the answer, with the names the API uses; [] when the
\* database does not answer (lines 362-364)
get_table_vector_columns(rows, table_name, answered) ==
    IF ~answered THEN <<>>
    ELSE LET results == SelectSeq(rows, LAMBDA r : r.tbl_name = table_name)
         IN  [i \in DOMAIN results |->
                 [column_name |-> results[i].col_name, model_name |-> results[i].mdl_name,
                  combined_fields |-> ParsedStr(results[i].combined_fields)]]

NoRegistration ==
    [ms |-> <<>>, known |-> {}, rows |-> <<>>, table_name |-> None, column_name |-> None,
     model_name |-> None, combined_fields |-> None,
     db |-> [insert |-> TRUE, update |-> TRUE, json |-> "text"], done |-> FALSE]

\* --------------------------------------------------------- recommendations
MaxHits == 3
MaxLimit == 2

ID == "id"
VECTOR == "vector"

\* a document id as JSON carries it: a number or a string of digits
DocIds == [json : {"number", "string"}, digits : 1..MaxHits]
NoDoc == [json |-> "null", digits |-> 0]
AVector == [json |-> "array", digits |-> 0]

\* str(x) of a document id
Str(x) == ToString(x.digits)

\* `knn_limit`: one more than the limit when the reference is to be left out
knn_limit(request) ==
    IF request.exclude_self /\ request.input_type = ID
    THEN request.limit + 1 ELSE request.limit

\* an exclusion that compares with the id the request gave
ExcludeId_AsRequested(request, actual_reference_doc_id) == request.input_value

\* `exclude_id`: the id found in stage 1, else the input value
ExcludeId(request, actual_reference_doc_id) ==
    IF actual_reference_doc_id # NoDoc THEN actual_reference_doc_id
    ELSE request.input_value

\* 1.0 / (1.0 + distance) if distance > 0 else 1.0
Score(distance) == IF distance > 0 THEN Frac(1, 1 + distance) ELSE Frac(1, 1)

\* x < y for numbers n / d with d > 0
Less(x, y) == x.n * y.d < y.n * x.d

NoThreshold == Frac(-1, 1)

\* _similarity_search from the answer of the database on: `hits` are the
\* rows of the answer, in its order
_similarity_search(request, actual_reference_doc_id, hits) ==
    LET exclude_id == ExcludeId(request, actual_reference_doc_id)
        Kept(hit) ==
            /\ ~(/\ request.exclude_self
                  /\ request.input_type = ID
                  /\ Str(hit.id) = Str(exclude_id))
            /\ ~(/\ request.similarity_threshold # NoThreshold
                  /\ Less(Score(hit.distance), request.similarity_threshold))
        kept == SelectSeq(hits, Kept)
        recommendations ==
            [i \in DOMAIN kept |->
                [id |-> kept[i].id, score |-> Score(kept[i].distance),
                 distance |-> kept[i].distance]]
    IN  SubSeq(recommendations, 1, IF Len(recommendations) < request.limit
                                    THEN Len(recommendations) ELSE request.limit)

\* ------------------------------------------- recommendations, stage 1
\* an HTTPException of a status, and a call that raised none
HTTPException(status_code) == [raised |-> TRUE, status_code |-> status_code]

Passed == [raised |-> FALSE, status_code |-> 200]

\* input_value: Union[str, int, List[float]]
InputValues == {"list", "number", "long_number", "digits", "word"}

\* len(str(numeric_id)) of an id: a long number has more than 15 digits
IdLength(doc_id) == IF doc_id = "long_number" THEN 16 ELSE 1

\* what the table holds for the id asked for: a document with its vector, no
\* document, a document whose vector column is empty or holds a URL; or the
\* database fails.  "unasked": the call has not asked for a document
Documents == {"vector", "missing", "empty", "url", "db_error"}

\* int(doc_id) succeeds
Numeric(doc_id) == doc_id \in {"number", "long_number", "digits"}

\* _get_vector_by_id: int(doc_id), the search, the tests on the document;
\* its own handlers pass an HTTPException on
_get_vector_by_id(doc_id, doc) ==
    IF ~Numeric(doc_id) THEN HTTPException(400)
    ELSE IF doc = "db_error" THEN HTTPException(500)
    ELSE IF doc \in {"missing", "empty"} THEN HTTPException(404)
    ELSE IF doc = "url" THEN HTTPException(400)
    ELSE Passed

\* _get_reference_vector: the vector columns of the table, the column asked
\* for, then the input type
_get_reference_vector(request, vector_columns, doc) ==
    IF vector_columns = <<>> THEN HTTPException(404)
    ELSE IF /\ request.vector_column # None
            /\ \A i \in DOMAIN vector_columns :
                  vector_columns[i].column_name # request.vector_column
    THEN HTTPException(404)
    ELSE IF request.input_type = VECTOR
    THEN IF request.input_value # "list" THEN HTTPException(400) ELSE Passed
    ELSE IF request.input_type = ID
    THEN _get_vector_by_id(request.input_value, doc)
    ELSE IF request.input_type = TEXT THEN HTTPException(501)
    ELSE HTTPException(400)

\* `except Exception as e: raise HTTPException(status_code=500, ...)`:
\* HTTPException is an Exception, so the clause takes it too
Handled(e) == HTTPException(500)

\* RecommendationService.get_recommendations: stage 1, stage 2, both inside
\* the one try
get_recommendations(request, vector_columns, doc, search) ==
    LET stage1 == _get_reference_vector(request, vector_columns, doc)
    IN  IF stage1.raised THEN Handled(stage1)
        ELSE IF search.raised THEN Handled(search)
        ELSE Passed

\* RecommendationService._get_table_vector_columns: the settings of the
\* table as VectorColumnInfo, [] when there are none
_get_table_vector_columns(rows, table_name, answered) ==
    get_table_vector_columns(rows, table_name, answered)

\* vector_column_info: the column asked for, else the first of the table
vector_column_info(request, vector_columns) ==
    IF request.vector_column # None
    THEN vector_columns[CHOOSE i \in DOMAIN vector_columns :
                           /\ vector_columns[i].column_name = request.vector_column
                           /\ \A j \in 1..(i - 1) :
                                 vector_columns[j].column_name # request.vector_column]
    ELSE vector_columns[1]

\* the request a call sends once it has the vector columns: the search for
\* the document (line 148), the KNN query (line 302), or none when stage 1
\* raises before
Sends(request, vector_columns) ==
    IF _get_reference_vector(request, vector_columns, "vector").raised THEN None
    ELSE IF request.input_type = ID THEN "document"
    ELSE "knn"

\* the exact search found nothing and the id has more than 15 digits: the
\* range search of line 182 is sent
SearchesRange(doc_id, doc) == doc = "missing" /\ IdLength(doc_id) > 15

NoRecommend ==
    [request |-> [table_name |-> None, input_type |-> VECTOR, input_value |-> "list",
                  vector_column |-> None],
     vector_columns |-> <<>>, doc |-> "unasked", search |-> Passed, done |-> FALSE]

\* no call has answered
NoResponse == [stage1 |-> Passed, response |-> Passed, vector_column_used |-> None]

\* no request is under way in the embedding services
NoService ==
    [kind |-> None, name |-> None, texts |-> <<>>, fields |-> <<>>, size |-> 0,
     combine_method |-> None, normalize |-> FALSE,
     stage |-> "none", pos |-> 1, calls |-> <<>>, embeddings |-> <<>>, weights |-> <<>>]

ServiceFails(err) == [done |-> TRUE, ok |-> FALSE, err |-> err, count |-> 0]

ServicesAtRest ==
    /\ gin = NoRecommend
    /\ gout = NoResponse
    /\ fin = NoService
    /\ fout = [done |-> FALSE, ok |-> FALSE, err |-> None, count |-> 0]

NoSearch ==
    [request |-> [limit |-> 1, exclude_self |-> FALSE, input_type |-> VECTOR,
                  input_value |-> AVector, similarity_threshold |-> NoThreshold],
     actual_reference_doc_id |-> NoDoc, hits |-> <<>>, done |-> FALSE]

\* the calls made alone are not made
OthersAtRest ==
    /\ bin = NoBatch
    /\ bout = BatchFails(None, 0)
    /\ sin = NoRegistration
    /\ sout = SaveFails(None, <<>>)
    /\ rin = NoSearch
    /\ rout = <<>>
    /\ ServicesAtRest

\* ---------------------------------------------------------------- requests
NoInfo == [present |-> FALSE, type |-> None, dimensions |-> 0, is_loaded |-> FALSE]

ModelInfo(type, dimensions) ==
    [present |-> TRUE, type |-> type, dimensions |-> dimensions, is_loaded |-> TRUE]

\* the vectors a get_embedding returned: how many, how wide, of which
\* model object, and (backend) through which path of the if-chain
NoVec == [count |-> 0, width |-> 0, id |-> 0, backend |-> None]

\* what a call returned or raised; `via` tells the two returns of load_model apart
NoRet ==
    [status |-> "none", err |-> None, via |-> None, info |-> NoInfo, flag |-> FALSE,
     vec |-> NoVec, index |-> 0]

\* `at` is the item of the content the handler is at
NoReq ==
    [op |-> None, name |-> None, type |-> None, force |-> FALSE, content |-> <<>>,
     ctype |-> None, at |-> 0]

\* model_type of a load request: Optional[ModelType] (models/embeddings.py:96)
LoadTypes == {TEXT, MULTIMODAL, None}

\* one content item: plain text, an http(s) URL, a base64 image
EmbeddingInputs ==
    {<<(<<"text">>), TEXT>>, <<(<<"text">>), IMAGE>>, <<(<<"url">>), IMAGE>>,
     <<(<<"b64">>), IMAGE>>, <<(<<"text">>), MULTIMODAL>>}

Requests ==
    {[op |-> "load_model", name |-> n, type |-> ty, force |-> f, content |-> <<>>,
      ctype |-> None, at |-> 0] : n \in Names, ty \in LoadTypes, f \in BOOLEAN}
    \cup {[op |-> "unload_model", name |-> n, type |-> None, force |-> FALSE,
           content |-> <<>>, ctype |-> None, at |-> 0] : n \in Names}
    \cup {[op |-> "get_embedding", name |-> n, type |-> None, force |-> FALSE,
           content |-> i[1], ctype |-> i[2], at |-> 0] : n \in Names, i \in EmbeddingInputs}

Returned(info, via) == [NoRet EXCEPT !.status = "ok", !.info = info, !.via = via]
ReturnedFlag(flag) == [NoRet EXCEPT !.status = "ok", !.flag = flag]
ReturnedVec(data, count) ==
    [NoRet EXCEPT !.status = "ok",
                  !.vec = [count |-> count, width |-> data.out_dim, id |-> data.id,
                           backend |-> InferencePath(data)]]
Error(err) == [NoRet EXCEPT !.status = "err", !.err = err]

\* "Failed to process image {i}": the index of the image, counted from 0,
\* and the path of the model that was to embed it
ImageError(index, data) ==
    [NoRet EXCEPT !.status = "err", !.err = "image_failed", !.index = index,
                  !.vec = [NoVec EXCEPT !.backend = InferencePath(data)]]

\* ------------------------------------------------------------------- state
\* the cache a load_model call finds when it goes past the test for a hit
NoSnapshot == [taken |-> FALSE, models |-> <<>>, model_info |-> <<>>]

Snapshot(ms, info) == [taken |-> TRUE, models |-> ms, model_info |-> info]

NoCall == [name |-> None, type |-> None, env |-> None, done |-> FALSE]

Init ==
    /\ capacity \in 1..MaxCapacity
    /\ models = <<>>
    /\ model_info = [n \in Names |-> NoInfo]
    /\ pc = [t \in Tasks |-> "idle"]
    /\ req = [t \in Tasks |-> NoReq]
    /\ held = [t \in Tasks |-> NoData]
    /\ last_used = [n \in Names |-> 0]
    /\ last = NoRet
    /\ lin = NoCall
    /\ lout = Raised(<<>>, <<>>)
    /\ joined = {}
    /\ cin = NoCombine
    /\ cout = CombineFails(None)
    /\ ein = NoEmbed
    /\ eout = EmbedFails(None, 0)
    /\ at_entry = NoSnapshot
    /\ OthersAtRest

\* a request arrives and waits for the event loop; of the idle tasks, which
\* are all alike, the first one serves it
Submit(t, r) ==
    /\ pc[t] = "idle"
    /\ \A u \in Tasks : u < t => pc[u] # "idle"
    /\ pc' = [pc EXCEPT ![t] = "pending"]
    /\ req' = [req EXCEPT ![t] = r]
    /\ UNCHANGED <<capacity, models, model_info, held, last_used, last, lin, lout, cin, cout, ein, eout, joined, at_entry, others>>

\* a loader that suspends and lets the event loop run other handlers
Busy_Never == FALSE

\* The event loop is taken: some handler is between two of its steps with
\* no suspension point in between (load_model and get_embedding up to the
\* image download never suspend).
Busy == \E u \in Tasks : pc[u] \in {"ensuring", "loading", "hung", "embedding"}

\* a handler starts: the event loop is free and runs the waiting request
Starts(t) == pc[t] = "pending" /\ ~Busy

\* the load_model calls that wait for the event loop with the name task t is
\* to load
Waiting(t) ==
    {u \in Tasks \ {t} :
        pc[u] = "pending" /\ req[u].op = "load_model" /\ req[u].name = req[t].name}

\* a handler goes on to its next step
Continue(t, where) ==
    /\ pc' = [pc EXCEPT ![t] = where]
    /\ joined' = IF where = "ensuring" THEN joined \cup Waiting(t) ELSE joined
    /\ at_entry' = IF where = "ensuring" THEN Snapshot(models, model_info)
                   ELSE IF where \in {"loading", "hung"} THEN at_entry
                   ELSE NoSnapshot
    /\ UNCHANGED <<req, last>>

\* a handler ends
Finish(t, result) ==
    /\ pc' = [pc EXCEPT ![t] = "idle"]
    /\ req' = [req EXCEPT ![t] = NoReq]
    /\ last' = result
    /\ joined' = joined \ {t}
    /\ at_entry' = NoSnapshot

\* Logical time of the resident names' most recent uses, kept up to order:
\* the name used now gets the latest time, a name that leaves gets 0, and
\* the times are renumbered 1, 2, ... in their order.
Renumber(lu) ==
    [n \in DOMAIN lu |->
        IF lu[n] = 0 THEN 0
        ELSE Cardinality({m \in DOMAIN lu : lu[m] # 0 /\ lu[m] <= lu[n]})]

Used(lu, name) == Renumber([lu EXCEPT ![name] = Cardinality(DOMAIN lu) + 1])

Left(lu, name) == Renumber([lu EXCEPT ![name] = 0])

\* the identity of a newly built model object: one no live object of the
\* name has (the objects in _models and those a suspended handler holds)
FreshId(name) ==
    LET live == {models[i].data.id : i \in {j \in DOMAIN models : models[j].name = name}}
                \cup {held[t].id : t \in {u \in Tasks : req[u].name = name}}
    IN  CHOOSE i \in 1..(NumTasks + 2) : i \notin live /\ \A j \in 1..(i - 1) : j \in live

\* an unload that leaves the entry to a later cleanup
Unloaded_Deferred(ms, name) == ms

\* unload_model: the effect on _models, _model_info
Unloaded(ms, name) == Delete(ms, name)

MarkUnloaded(info, name) ==
    IF info[name].present THEN [info EXCEPT ![name].is_loaded = FALSE] ELSE info

unload_model(t) ==
    /\ Starts(t)
    /\ req[t].op = "unload_model"
    /\ IF req[t].name \notin Resident(models)
       THEN /\ Finish(t, ReturnedFlag(FALSE))
            /\ UNCHANGED <<models, model_info, last_used>>
       ELSE /\ models' = Unloaded(models, req[t].name)
            /\ model_info' = MarkUnloaded(model_info, req[t].name)
            /\ last_used' = Left(last_used, req[t].name)
            /\ Finish(t, ReturnedFlag(TRUE))
    /\ UNCHANGED <<capacity, held, lin, lout, cin, cout, ein, eout, others>>

\* the arguments of the load_model call a request leads to
LoadArgs(r) ==
    IF r.op = "load_model"
    THEN [name |-> r.name, type |-> r.type, force |-> r.force]
    ELSE [name |-> r.name, type |-> available_models[r.name].type, force |-> FALSE]

\* `if model_name in self._models and not force_reload`
IsHit(ms, name, force) == name \in Resident(ms) /\ ~force

\* load_model, already loaded: mark as used, return the stored ModelInfo
load_model_hit(t) ==
    /\ Starts(t)
    /\ req[t].op = "load_model"
    /\ IsHit(models, req[t].name, req[t].force)
    /\ models' = MoveToEnd(models, req[t].name)
    /\ last_used' = Used(last_used, req[t].name)
    \* `return self._model_info[model_name]`: a KeyError when there is none
    /\ IF model_info[req[t].name].present
       THEN Finish(t, Returned(model_info[req[t].name], "hit"))
       ELSE Finish(t, Error("KeyError"))
    /\ UNCHANGED <<capacity, model_info, held, lin, lout, cin, cout, ein, eout, others>>

\* load_model, not loaded or forced: on to _ensure_memory_available
load_model_miss(t) ==
    /\ Starts(t)
    /\ req[t].op = "load_model"
    /\ ~IsHit(models, req[t].name, req[t].force)
    /\ Continue(t, "ensuring")
    /\ UNCHANGED <<capacity, models, model_info, held, last_used, lin, lout, cin, cout, ein, eout, others>>

\* a loop that lets the cache fill one past the limit before it evicts
MustEvict_Late(ms, cap) == Len(ms) > cap

\* `while len(self._models) >= settings.max_models_in_memory`
MustEvict(ms, cap) == Len(ms) >= cap

\* a loop that takes the entry at the wrong end of the OrderedDict
LruModel_Last(ms) == ms[Len(ms)].name

\* next(iter(self._models))
LruModel(ms) == ms[1].name

\* one turn of the loop of _ensure_memory_available
ensure_memory_evict(t) ==
    /\ pc[t] = "ensuring"
    /\ MustEvict(models, capacity)
    /\ models' = Unloaded(models, LruModel(models))
    /\ model_info' = MarkUnloaded(model_info, LruModel(models))
    /\ last_used' = Left(last_used, LruModel(models))
    /\ UNCHANGED <<capacity, pc, req, held, last, lin, lout, cin, cout, ein, eout, joined, at_entry, others>>

\* the loop of _ensure_memory_available ends: on to the loader
ensure_memory_done(t) ==
    /\ pc[t] = "ensuring"
    /\ ~MustEvict(models, capacity)
    /\ Continue(t, "loading")
    /\ UNCHANGED <<capacity, models, model_info, held, last_used, lin, lout, cin, cout, ein, eout, others>>

\* a store that puts the new model at the head of the OrderedDict
Stored_AtHead(ms, name, data) ==
    <<[name |-> name, data |-> data]>> \o (IF name \in Resident(ms) THEN Delete(ms, name) ELSE ms)

\* storing a loaded model: self._models[name] = data; move_to_end(name)
Stored(ms, name, data) == MoveToEnd(SetItem(ms, name, data), name)

\* `dimensions: int` of ModelInfo accepts the value (None is kept as 0)
IsInt(dimensions) == dimensions # 0

\* the rest of load_model: the loader runs, the model is stored
load_model_finish(t) ==
    /\ pc[t] = "loading"
    /\ LET a == LoadArgs(req[t])
       IN  \E r \in LoaderOutcomes(a.name, a.type) :
             LET data == [r.data EXCEPT !.id = FreshId(a.name)]
                 info == ModelInfo(a.type, data.dimensions)
             IN  IF r.ok /\ ~IsInt(data.dimensions)
                 \* the model is stored, then ModelInfo(dimensions=None) raises
                 THEN /\ models' = Stored(models, a.name, data)
                      /\ last_used' = Used(last_used, a.name)
                      /\ Finish(t, Error("ValidationError"))
                      /\ UNCHANGED model_info
                 ELSE IF r.ok
                 THEN /\ models' = Stored(models, a.name, data)
                      /\ model_info' = [model_info EXCEPT ![a.name] = info]
                      /\ last_used' = Used(last_used, a.name)
                      /\ IF req[t].op = "load_model"
                         THEN Finish(t, Returned(info, "loaded"))
                         ELSE Continue(t, "embedding")
                 ELSE /\ Finish(t, IF a.type \in ModelType
                                   THEN Error("load_failed")
                                   ELSE Error("unsupported_model_type"))
                      /\ UNCHANGED <<models, model_info, last_used>>
    /\ UNCHANGED <<capacity, held, lin, lout, cin, cout, ein, eout, others>>

\* the library call of the loader does not return (a download that stalls):
\* load_model sets no timer and nothing else runs on the event loop, so the
\* handler stays where it is
loader_hangs(t) ==
    /\ pc[t] = "loading"
    /\ Continue(t, "hung")
    /\ UNCHANGED <<capacity, models, model_info, held, last_used, lin, lout, cin, cout, ein, eout, others>>

\* a get_embedding that never loads on its own
CanAutoLoad_Never(name) == FALSE

\* a get_embedding that loads on its own only a model never loaded before
CanAutoLoad_OnlyNew(name) == InRegistry(name) /\ ~model_info[name].present

\* `if model_name in self._available_models` of get_embedding
CanAutoLoad(name) == InRegistry(name)

\* get_embedding up to the lookup of the model
get_embedding_start(t) ==
    /\ Starts(t)
    /\ req[t].op = "get_embedding"
    /\ IF req[t].name \in Resident(models)
       THEN Continue(t, "embedding")
       ELSE IF CanAutoLoad(req[t].name)
       THEN Continue(t, "ensuring")
       ELSE Finish(t, Error("model_not_loaded"))
    /\ UNCHANGED <<capacity, models, model_info, held, last_used, lin, lout, cin, cout, ein, eout, others>>

\* a loop over the images that goes on past one it cannot process and
\* reports the last of them
NextStop_Last(content, from) ==
    LET stops == {i \in from..Len(content) : content[i] # "b64"}
    IN  IF stops = {} THEN 0 ELSE CHOOSE i \in stops : \A j \in stops : j <= i

\* `for i, img_data in enumerate(images)` from the image at `from` on: the
\* loop runs through the base64 images, which it decodes at once, and stops
\* at the first image that is a URL to download or that cannot be decoded;
\* 0 when it comes to the end of the list
NextStop(content, from) ==
    LET stops == {i \in from..Len(content) : content[i] # "b64"}
    IN  IF stops = {} THEN 0 ELSE CHOOSE i \in stops : \A j \in stops : i <= j

\* the loop over the images from the image at `from` on, up to its next
\* suspension or to the end of the call; data is the model picked
ImagesFrom(t, from, data) ==
    LET r == req[t]
        stop == NextStop(r.content, from)
    IN  IF stop = 0
        THEN /\ Finish(t, ReturnedVec(data, Len(r.content)))
             /\ held' = [held EXCEPT ![t] = NoData]
        ELSE IF r.content[stop] = "url"
        THEN /\ pc' = [pc EXCEPT ![t] = "fetching"]
             /\ req' = [req EXCEPT ![t].at = stop]
             /\ held' = [held EXCEPT ![t] = data]
             /\ at_entry' = NoSnapshot
             /\ UNCHANGED <<last, joined>>
        ELSE /\ Finish(t, ImageError(stop - 1, data))
             /\ held' = [held EXCEPT ![t] = NoData]

\* get_embedding from `model_data = self._models[model_name]` on
get_embedding_use(t) ==
    /\ pc[t] = "embedding"
    /\ LET r == req[t]
           data == Lookup(models, r.name)
       IN  /\ models' = MoveToEnd(models, r.name)
           /\ last_used' = Used(last_used, r.name)
           /\ CASE r.ctype = TEXT ->
                     Finish(t, ReturnedVec(data, Len(r.content))) /\ UNCHANGED held
                [] r.ctype = IMAGE -> ImagesFrom(t, 1, data)
                [] OTHER ->
                     Finish(t, Error("unsupported_content_type")) /\ UNCHANGED held
    /\ UNCHANGED <<capacity, model_info, lin, lout, cin, cout, ein, eout, others>>

\* the image download returns: the image is opened and the loop goes on
\* with the model picked before it, or the download has failed
fetch_done(t, ok) ==
    /\ pc[t] = "fetching" /\ ~Busy
    /\ IF ok
       THEN ImagesFrom(t, req[t].at + 1, held[t])
       ELSE /\ Finish(t, ImageError(req[t].at - 1, held[t]))
            /\ held' = [held EXCEPT ![t] = NoData]
    /\ UNCHANGED <<capacity, models, model_info, last_used, lin, lout, cin, cout, ein, eout, others>>

\* list_models: the names whose ModelInfo is reported, and of these the ones
\* reported as loaded
list_models(info) == {n \in DOMAIN info : info[n].present}

ReportedLoaded(info) == {n \in list_models(info) : info[n].is_loaded}

\* the models get_total_memory_usage adds up: the resident names that have a
\* ModelInfo with is_loaded
get_total_memory_usage(ms, info) ==
    {n \in Resident(ms) : info[n].present /\ info[n].is_loaded}

\* the steps of the handlers of task t
Handler(t) ==
    \/ unload_model(t)
    \/ load_model_hit(t)
    \/ load_model_miss(t)
    \/ ensure_memory_evict(t)
    \/ ensure_memory_done(t)
    \/ load_model_finish(t)
    \/ loader_hangs(t)
    \/ get_embedding_start(t)
    \/ get_embedding_use(t)
    \/ \E ok \in BOOLEAN : fetch_done(t, ok)

\* calls made one at a time
Next ==
    \/ \E r \in Requests : Submit(1, r)
    \/ Handler(1)

Spec == Init /\ [][Next]_vars

\* the requests made concurrently
ConcRequests ==
    {r \in Requests :
        /\ r.name \in {MiniLM, ClipB32}
        /\ \/ r.op = "load_model" /\ ~r.force /\ r.type = MULTIMODAL
           \/ r.op = "get_embedding" /\ r.content = <<"url">> /\ r.name = MiniLM
           \/ r.op = "unload_model" /\ r.name = ClipB32}

\* calls made by concurrent tasks
NextConc ==
    \E t \in Tasks :
       \/ \E r \in ConcRequests : Submit(t, r)
       \/ Handler(t)

SpecConc == Init /\ [][NextConc]_vars

\* ------------------------------------------ load_model on an empty cache
\* the calls of the loader: every name, every model_type load_model can be
\* given, every course the libraries can take
LoaderCalls ==
    {c \in [name : LoaderNames, type : ModelType \cup {None}, env : LoaderEnvs,
            done : {FALSE}] : TRUE}

InitLoader ==
    /\ capacity = 1
    /\ models = <<>>
    /\ model_info = [n \in LoaderNames |-> NoInfo]
    /\ pc = [t \in Tasks |-> "idle"]
    /\ req = [t \in Tasks |-> NoReq]
    /\ held = [t \in Tasks |-> NoData]
    /\ last_used = [n \in LoaderNames |-> 0]
    /\ last = NoRet
    /\ joined = {}
    /\ lin \in LoaderCalls
    /\ lout = Raised(<<>>, <<>>)
    /\ cin = NoCombine
    /\ cout = CombineFails(None)
    /\ ein = NoEmbed
    /\ eout = EmbedFails(None, 0)
    /\ at_entry = NoSnapshot
    /\ OthersAtRest

\* load_model on an empty cache, from its first line to its return or
\* raise: no hit, nothing to evict, the loader runs on the call drawn, the
\* model it returns is stored, its ModelInfo is built and kept
LoaderRuns ==
    /\ ~lin.done
    /\ LET r == Loader(lin.name, lin.type, lin.env)
           info == ModelInfo(lin.type, r.data.dimensions)
       IN  /\ lout' = r
           /\ lin' = [lin EXCEPT !.done = TRUE]
           /\ IF r.ok /\ ~IsInt(r.data.dimensions)
              \* the model is stored, then ModelInfo(dimensions=None) raises
              THEN /\ models' = Stored(models, lin.name, r.data)
                   /\ last_used' = [last_used EXCEPT ![lin.name] = 1]
                   /\ last' = Error("ValidationError")
                   /\ UNCHANGED model_info
              ELSE IF r.ok
              THEN /\ models' = Stored(models, lin.name, r.data)
                   /\ model_info' = [model_info EXCEPT ![lin.name] = info]
                   /\ last_used' = [last_used EXCEPT ![lin.name] = 1]
                   /\ last' = Returned(info, "loaded")
              ELSE /\ last' = IF lin.type \in ModelType
                              THEN Error("load_failed")
                              ELSE Error("unsupported_model_type")
                   /\ UNCHANGED <<models, model_info, last_used>>
    /\ UNCHANGED <<capacity, pc, req, held, joined, cin, cout, ein, eout, at_entry, others>>

NextLoader == LoaderRuns

SpecLoader == InitLoader /\ [][NextLoader]_vars

\* ------------------------------------- get_embedding on the entry loaded
\* get_embedding is called for the model the load has stored, with a text,
\* with an image, with an image that cannot be decoded or with a content
\* type it does not support, and waits for the event loop
EntryCalled ==
    /\ lin.done /\ lin.name \in Resident(models)
    /\ \E i \in EmbeddingInputs :
          /\ i[1] # <<"url">>
          /\ Submit(1, [op |-> "get_embedding", name |-> lin.name, type |-> None,
                        force |-> FALSE, content |-> i[1], ctype |-> i[2], at |-> 0])

NextEntry ==
    \/ LoaderRuns
    \/ EntryCalled
    \/ get_embedding_start(1)
    \/ get_embedding_use(1)

\* a load on an empty cache, and then any number of get_embedding calls on
\* the entry it stored
SpecEntry == InitLoader /\ [][NextEntry]_vars

\* ----------------------------------------------------- the combiner alone
\* the embeddings and weights of the fields of a request, as
\* generate_multi_field_embeddings collects them: one of each per field
FieldLists == UNION {[1..n -> [e : Vectors, w : Weights]] : n \in 0..MaxFields}

InitCombine ==
    /\ capacity = 1
    /\ models = <<>>
    /\ model_info = [n \in Names |-> NoInfo]
    /\ pc = [t \in Tasks |-> "idle"]
    /\ req = [t \in Tasks |-> NoReq]
    /\ held = [t \in Tasks |-> NoData]
    /\ last_used = [n \in Names |-> 0]
    /\ last = NoRet
    /\ joined = {}
    /\ lin = NoCall
    /\ lout = Raised(<<>>, <<>>)
    /\ \E fields \in FieldLists, method \in Methods, normalize \in BOOLEAN :
          cin = [embeddings |-> [i \in DOMAIN fields |-> fields[i].e],
                 weights |-> [i \in DOMAIN fields |-> fields[i].w],
                 method |-> method, normalize |-> normalize, done |-> FALSE]
    /\ cout = CombineFails(None)
    /\ ein = NoEmbed
    /\ eout = EmbedFails(None, 0)
    /\ at_entry = NoSnapshot
    /\ OthersAtRest

\* the combiner runs on the call drawn
CombineRuns ==
    /\ ~cin.done
    /\ cout' = generate_multi_field_embeddings(cin)
    /\ cin' = [cin EXCEPT !.done = TRUE]
    /\ UNCHANGED <<capacity, models, model_info, pc, req, held, last_used, last, joined,
                   lin, lout, ein, eout, at_entry, others>>

NextCombine == CombineRuns

SpecCombine == InitCombine /\ [][NextCombine]_vars

\* ------------------------------------------- the inputs of the services
\* the batches: texts, which are always read, or images with their outcomes
Batches(ctype) ==
    UNION {[1..n -> IF ctype = TEXT THEN {"ok"} ELSE ImageOutcomes] : n \in 1..MaxBatch}

\* ------------------------------------------------ the manager left alone
ManagerAtRest ==
    /\ capacity = 1
    /\ models = <<>>
    /\ model_info = [n \in Names |-> NoInfo]
    /\ pc = [t \in Tasks |-> "idle"]
    /\ req = [t \in Tasks |-> NoReq]
    /\ held = [t \in Tasks |-> NoData]
    /\ last_used = [n \in Names |-> 0]
    /\ last = NoRet
    /\ joined = {}
    /\ at_entry = NoSnapshot
    /\ lin = NoCall
    /\ lout = Raised(<<>>, <<>>)
    /\ cin = NoCombine
    /\ cout = CombineFails(None)
    /\ ein = NoEmbed
    /\ eout = EmbedFails(None, 0)

manager == <<capacity, models, model_info, pc, req, held, last_used, last, joined, at_entry,
             lin, lout, cin, cout, ein, eout>>

\* the batches of up to MaxRequests requests, and one of more requests
\* than settings.max_batch_size
BatchLists ==
    UNION {[1..n -> BatchMembers] : n \in 0..MaxRequests}
    \cup {[i \in 1..(max_batch_size + 1) |->
              CHOOSE m \in BatchMembers : m.class = TextEmbeddingRequest]}

\* ------------------------------------------------ the registrations alone
\* the loaded models a registration finds: none, or one that
\* sentence-transformers loaded
LoadedModels ==
    {<<>>}
    \cup {<<[name |-> n, data |-> STData(n, TEXT, <<>>).data]>> : n \in {MiniLM, Custom}}
    \cup {<<[name |-> StClip, data |-> STData(StClip, MULTIMODAL, <<>>).data]>>}

\* the names that have a ModelInfo: load_model keeps one for the model it
\* stored when the dimensions are an int
KnownOf(ms) == {ms[i].name : i \in {j \in DOMAIN ms : IsInt(ms[j].data.dimensions)}}

Tables == {"products"}
Columns == {"embedding", "title_vector"}
CombinedFields == {None, WEIGHTS}

\* what manager_vector_column_settings holds before the call
StoredRows ==
    {<<>>} \cup {<<Row(t, c, MiniLM, None)>> : t \in Tables, c \in Columns}

InitRegister ==
    /\ ManagerAtRest
    /\ bin = NoBatch
    /\ bout = BatchFails(None, 0)
    /\ \E ms \in LoadedModels, rows \in StoredRows, t \in Tables, c \in Columns,
          n \in Names \cup {StClip}, f \in CombinedFields, i \in BOOLEAN, u \in BOOLEAN,
          j \in JsonForms :
          sin = [ms |-> ms, known |-> KnownOf(ms), rows |-> rows, table_name |-> t, column_name |-> c,
                 model_name |-> n, combined_fields |-> f,
                 db |-> [insert |-> i, update |-> u, json |-> j], done |-> FALSE]
    /\ sout = SaveFails(None, <<>>)
    /\ rin = NoSearch
    /\ rout = <<>>
    /\ ServicesAtRest

RegisterRuns ==
    /\ ~sin.done
    /\ sout' = save_vector_column_metadata(sin)
    /\ sin' = [sin EXCEPT !.done = TRUE]
    /\ UNCHANGED <<manager, bin, bout, rin, rout, services>>

NextRegister == RegisterRuns

SpecRegister == InitRegister /\ [][NextRegister]_vars

\* ------------------------------------------------- the settings saved
MaxSaves == 3
MaxProxied == 1

\* manager_vector_column_settings is empty and nothing was saved yet
InitSave ==
    /\ ManagerAtRest
    /\ bin = NoBatch
    /\ bout = BatchFails(None, 0)
    /\ sin = NoRegistration
    /\ sout = Saved(<<>>)
    /\ rin = NoSearch
    /\ rout = <<>>
    /\ ServicesAtRest

\* the arguments of a call of save_vector_column_settings that is under way
SaveCall(row) ==
    [op |-> "save_vector_column_settings", name |-> row.mdl_name, type |-> None,
     force |-> FALSE, content |-> <<row.tbl_name, row.col_name, row.combined_fields>>,
     ctype |-> None, at |-> 0]

RowOf(r) == Row(r.content[1], r.content[2], r.name, r.content[3])

\* the call that has just ended, with what the database answered
SaveEnded(row, db) ==
    [ms |-> <<>>, known |-> {}, rows |-> <<>>, table_name |-> row.tbl_name,
     column_name |-> row.col_name, model_name |-> row.mdl_name,
     combined_fields |-> row.combined_fields, db |-> db, done |-> TRUE]

\* the calls under way that may still add a row to the table
SavesUnderWay == {u \in Tasks : pc[u] \in {"creating", "inserting", "updating", "proxying"}}

\* the result of a call, in a table the proxy has written to as before
Kept(result) == [result EXCEPT !.proxied = sout.proxied]

\* how the database may return the cell the call of task t writes: a NULL
\* has one form
Rendering(t) ==
    IF pc[t] \in {"inserting", "updating"} /\ req[t].content[3] # None
    THEN JsonForms ELSE {"text"}

\* save_vector_column_settings is called and sends CREATE TABLE IF NOT
\* EXISTS; the handler is suspended until the database answers
SaveCalled(t) ==
    /\ pc[t] = "idle"
    /\ \A u \in Tasks : u < t => pc[u] # "idle"
    /\ Len(sout.rows) + Cardinality(SavesUnderWay) < MaxSaves
    /\ \E tb \in Tables, c \in Columns, n \in {MiniLM, ClipB32}, f \in CombinedFields :
          req' = [req EXCEPT ![t] = SaveCall(Row(tb, c, n, f))]
    /\ pc' = [pc EXCEPT ![t] = "creating"]
    /\ UNCHANGED <<capacity, models, model_info, held, last_used, last, joined, at_entry,
                   lin, lout, cin, cout, ein, eout, others>>

\* CREATE TABLE has answered, with or without an error: the INSERT is sent
SaveCreated(t) ==
    /\ pc[t] = "creating"
    /\ pc' = [pc EXCEPT ![t] = "inserting"]
    /\ UNCHANGED <<capacity, models, model_info, req, held, last_used, last, joined,
                   at_entry, lin, lout, cin, cout, ein, eout, others>>

\* the INSERT has answered: the row is in the table and the call returns, or
\* the database rejected it and the UPDATE is sent
SaveInserted(t, accepted, json) ==
    /\ pc[t] = "inserting"
    /\ IF accepted
       THEN /\ sout' = Kept(save_vector_column_settings(
                                sout.rows, RowOf(req[t]), [insert |-> TRUE, update |-> TRUE, json |-> json]))
            /\ sin' = SaveEnded(RowOf(req[t]), [insert |-> TRUE, update |-> TRUE, json |-> json])
            /\ pc' = [pc EXCEPT ![t] = "idle"]
            /\ req' = [req EXCEPT ![t] = NoReq]
       ELSE /\ pc' = [pc EXCEPT ![t] = "updating"]
            /\ UNCHANGED <<req, sin, sout>>
    /\ UNCHANGED <<capacity, models, model_info, held, last_used, last, joined, at_entry,
                   lin, lout, cin, cout, ein, eout, bin, bout, rin, rout, services>>

\* the UPDATE has answered, on the table as it is by now
SaveUpdated(t, accepted, json) ==
    /\ pc[t] = "updating"
    /\ sout' = Kept(save_vector_column_settings(
                        sout.rows, RowOf(req[t]), [insert |-> FALSE, update |-> accepted, json |-> json]))
    /\ sin' = SaveEnded(RowOf(req[t]), [insert |-> FALSE, update |-> accepted, json |-> json])
    /\ pc' = [pc EXCEPT ![t] = "idle"]
    /\ req' = [req EXCEPT ![t] = NoReq]
    /\ UNCHANGED <<capacity, models, model_info, held, last_used, last, joined, at_entry,
                   lin, lout, cin, cout, ein, eout, bin, bout, rin, rout, services>>

\* the arguments of a delete that is under way; a delete of all the columns
\* of a table names no column
DeleteCall(op, table_name, column_name) ==
    [NoReq EXCEPT !.op = op, !.content = <<table_name, column_name>>]

\* the call that ended last was a delete
DeleteEnded(table_name, column_name) ==
    [NoRegistration EXCEPT !.table_name = table_name, !.column_name = column_name]

\* a delete is called and sends its DELETE; the handler is suspended until
\* the database answers (lines 373 and 387)
DeleteCalled(t, op, table_name, column_name) ==
    /\ pc[t] = "idle"
    /\ \A u \in Tasks : u < t => pc[u] # "idle"
    /\ req' = [req EXCEPT ![t] = DeleteCall(op, table_name, column_name)]
    /\ pc' = [pc EXCEPT ![t] = "deleting"]
    /\ UNCHANGED <<capacity, models, model_info, held, last_used, last, joined, at_entry,
                   lin, lout, cin, cout, ein, eout, others>>

\* the DELETE has answered, on the table as it is by now, and the call
\* returns or raises
DeleteAnswered(t, op, accepted) ==
    /\ pc[t] = "deleting" /\ req[t].op = op
    /\ sout' = Kept(IF op = "delete_vector_column_settings"
                    THEN delete_vector_column_settings(
                             sout.rows, req[t].content[1], req[t].content[2], accepted)
                    ELSE delete_table_vector_settings(
                             sout.rows, req[t].content[1], accepted))
    /\ sin' = DeleteEnded(req[t].content[1], req[t].content[2])
    /\ pc' = [pc EXCEPT ![t] = "idle"]
    /\ req' = [req EXCEPT ![t] = NoReq]
    /\ UNCHANGED <<capacity, models, model_info, held, last_used, last, joined, at_entry,
                   lin, lout, cin, cout, ein, eout, bin, bout, rin, rout, services>>

\* delete_vector_column_settings, a step at a time
DeleteColumnRuns ==
    \E t \in Tasks :
       \/ \E tb \in Tables, c \in Columns :
             DeleteCalled(t, "delete_vector_column_settings", tb, c)
       \/ \E accepted \in BOOLEAN :
             DeleteAnswered(t, "delete_vector_column_settings", accepted)

\* delete_table_vector_settings, a step at a time
DeleteTableRuns ==
    \E t \in Tasks :
       \/ \E tb \in Tables : DeleteCalled(t, "delete_table_vector_settings", tb, None)
       \/ \E accepted \in BOOLEAN :
             DeleteAnswered(t, "delete_table_vector_settings", accepted)

\* the statements on manager_vector_column_settings that clients send
\* through /api/cli_json: the proxy forwards any body to the database
INSERT == "INSERT"
DELETE == "DELETE"

Statements ==
    {[verb |-> INSERT, row |-> Row(tb, c, n, None)] :
        tb \in Tables, c \in Columns, n \in {MiniLM, ClipB32}}
    \cup {[verb |-> DELETE, row |-> Row(tb, c, None, None)] : tb \in Tables, c \in Columns}

\* what the database makes of a statement
Executed(rows, statement) ==
    IF statement.verb = INSERT THEN Append(rows, statement.row)
    ELSE SelectSeq(rows, LAMBDA r : ~(/\ r.tbl_name = statement.row.tbl_name
                                      /\ r.col_name = statement.row.col_name))

ProxyCall(statement) ==
    [NoReq EXCEPT !.op = "manticore_proxy", !.type = statement.verb,
                  !.name = statement.row.mdl_name,
                  !.content = <<statement.row.tbl_name, statement.row.col_name,
                                statement.row.combined_fields>>]

\* manticore_proxy is called with a statement, sends it on and is suspended
\* until the database answers (main.py, line 86)
ProxyCalled(t) ==
    /\ pc[t] = "idle"
    /\ \A u \in Tasks : u < t => pc[u] # "idle"
    /\ sout.proxied + Cardinality({u \in Tasks : pc[u] = "proxying"}) < MaxProxied
    /\ \E statement \in Statements :
          /\ statement.verb = INSERT =>
                Len(sout.rows) + Cardinality(SavesUnderWay) < MaxSaves
          /\ req' = [req EXCEPT ![t] = ProxyCall(statement)]
    /\ pc' = [pc EXCEPT ![t] = "proxying"]
    /\ UNCHANGED <<capacity, models, model_info, held, last_used, last, joined, at_entry,
                   lin, lout, cin, cout, ein, eout, others>>

\* the database has answered the statement of the proxy, which returns the
\* answer with its status, whatever it is
ProxyAnswered(t, accepted) ==
    /\ pc[t] = "proxying"
    /\ sout' = [ok |-> accepted, err |-> IF accepted THEN None ELSE "HTTPError",
                rows |-> IF accepted
                         THEN Executed(sout.rows, [verb |-> req[t].type, row |-> RowOf(req[t])])
                         ELSE sout.rows,
                proxied |-> sout.proxied + 1]
    /\ sin' = DeleteEnded(req[t].content[1], req[t].content[2])
    /\ pc' = [pc EXCEPT ![t] = "idle"]
    /\ req' = [req EXCEPT ![t] = NoReq]
    /\ UNCHANGED <<capacity, models, model_info, held, last_used, last, joined, at_entry,
                   lin, lout, cin, cout, ein, eout, bin, bout, rin, rout, services>>

manticore_proxy ==
    \E t \in Tasks : ProxyCalled(t) \/ \E accepted \in BOOLEAN : ProxyAnswered(t, accepted)

\* the saves of concurrent requests, a step at a time
SaveRuns ==
    \E t \in Tasks :
       \/ SaveCalled(t)
       \/ SaveCreated(t)
       \/ \E accepted \in BOOLEAN, json \in Rendering(t) : SaveInserted(t, accepted, json)
       \/ \E accepted \in BOOLEAN, json \in Rendering(t) : SaveUpdated(t, accepted, json)

NextSave == SaveRuns \/ DeleteColumnRuns \/ DeleteTableRuns \/ manticore_proxy

SpecSave == InitSave /\ [][NextSave]_vars

\* ----------------------------------------------------- the searches alone
\* the answers of the database: rows of distinct ids, each with its distance
Answers ==
    {h \in UNION {[1..n -> [id : [json : {"number"}, digits : 1..MaxHits],
                            distance : {0, 1}]] : n \in 0..MaxHits} :
        \A i, j \in DOMAIN h : i # j => h[i].id # h[j].id}

\* the requests that come to stage 2, with the id stage 1 found: a vector
\* has no id; the id found is the one asked for or, when that one is not in
\* the table, another one
References ==
    {<<VECTOR, AVector, NoDoc>>}
    \cup {<<ID, [json |-> "number", digits |-> 1], a>> : a \in DocIds}

InitSearch ==
    /\ ManagerAtRest
    /\ bin = NoBatch
    /\ bout = BatchFails(None, 0)
    /\ sin = NoRegistration
    /\ sout = SaveFails(None, <<>>)
    /\ \E limit \in 1..MaxLimit, exclude_self \in BOOLEAN, ref \in References,
          threshold \in {NoThreshold, Frac(1, 1)}, hits \in Answers :
          rin = [request |-> [limit |-> limit, exclude_self |-> exclude_self,
                              input_type |-> ref[1], input_value |-> ref[2],
                              similarity_threshold |-> threshold],
                 actual_reference_doc_id |-> ref[3], hits |-> hits, done |-> FALSE]
    /\ rout = <<>>
    /\ ServicesAtRest

SearchRuns ==
    /\ ~rin.done
    /\ rout' = _similarity_search(rin.request, rin.actual_reference_doc_id, rin.hits)
    /\ rin' = [rin EXCEPT !.done = TRUE]
    /\ UNCHANGED <<manager, bin, bout, sin, sout, services>>

NextSearch == SearchRuns

SpecSearch == InitSearch /\ [][NextSearch]_vars

\* ------------------------------------------- the recommendations alone
\* the requests: an id that is a number, a long number, digits or a word, a
\* vector that is a list or not, a text
RecommendInputs ==
    {<<ID, v>> : v \in {"number", "long_number", "digits", "word"}}
    \cup {<<VECTOR, v>> : v \in {"list", "word"}}
    \cup {<<TEXT, "word">>}

RecommendRequests ==
    {[table_name |-> tb, input_type |-> i[1], input_value |-> i[2], vector_column |-> c] :
        tb \in Tables, i \in RecommendInputs, c \in {None, "embedding", "title_vector"}}

\* the requests that arrive while another call is under way: an id and a
\* vector, for the first column of the table
LaterRequests ==
    {r \in RecommendRequests :
        r.vector_column = None /\ r.input_value \in {"number", "list"}}

\* manager_vector_column_settings at the start: no row, one, or one for each
\* column of the table
SettingsTables ==
    StoredRows
    \cup {<<Row(tb, "embedding", MiniLM, None), Row(tb, "title_vector", ClipB32, None)>> :
             tb \in Tables}

InitRecommend ==
    /\ ManagerAtRest
    /\ bin = NoBatch
    /\ bout = BatchFails(None, 0)
    /\ sin = NoRegistration
    /\ sout \in {Saved(rows) : rows \in SettingsTables}
    /\ rin = NoSearch
    /\ rout = <<>>
    /\ gin = NoRecommend
    /\ gout = NoResponse
    /\ fin = NoService
    /\ fout = [done |-> FALSE, ok |-> FALSE, err |-> None, count |-> 0]

\* the request of a call of get_recommendations that is under way
RecommendCall(request) ==
    [NoReq EXCEPT !.op = "get_recommendations", !.type = request.input_type,
                  !.name = request.vector_column,
                  !.content = <<request.table_name, request.input_value>>]

RequestOf(r) ==
    [table_name |-> r.content[1], input_type |-> r.type, input_value |-> r.content[2],
     vector_column |-> r.name]

\* what a call has read so far: the vector columns of its table
Read(vector_columns) == [NoData EXCEPT !.type = vector_columns]

\* the route is called: get_recommendations, _get_reference_vector and
\* get_table_vector_columns up to the request of line 333
RecommendCalled(t) ==
    /\ pc[t] = "idle"
    /\ \A u \in Tasks : u < t => pc[u] # "idle"
    /\ \E request \in IF t = 1 THEN RecommendRequests ELSE LaterRequests :
          req' = [req EXCEPT ![t] = RecommendCall(request)]
    /\ pc' = [pc EXCEPT ![t] = "vector_columns"]
    /\ UNCHANGED <<capacity, models, model_info, held, last_used, last, joined, at_entry,
                   lin, lout, cin, cout, ein, eout, others>>

\* the call ends: stage 1 and the response, from what the database answered
\* to this call
RecommendEnded(t, vector_columns, doc, search) ==
    LET request == RequestOf(req[t])
        response == get_recommendations(request, vector_columns, doc, search)
    IN  /\ gin' = [request |-> request, vector_columns |-> vector_columns, doc |-> doc,
                   search |-> search, done |-> TRUE]
        /\ gout' = [stage1 |-> _get_reference_vector(request, vector_columns, doc),
                    response |-> response,
                    vector_column_used |->
                        IF response.raised THEN None
                        ELSE vector_column_info(request, vector_columns).column_name]
        /\ pc' = [pc EXCEPT ![t] = "idle"]
        /\ req' = [req EXCEPT ![t] = NoReq]
        /\ held' = [held EXCEPT ![t] = NoData]

\* the settings of the table are there, or the database did not answer:
\* stage 1 raises, or goes on to its search for the document, or is over and
\* stage 2 sends the KNN query
ColumnsAnswered(t, answered) ==
    /\ pc[t] = "vector_columns"
    /\ LET request == RequestOf(req[t])
           vector_columns == _get_table_vector_columns(sout.rows, request.table_name, answered)
       IN  IF Sends(request, vector_columns) = None
           THEN RecommendEnded(t, vector_columns, "unasked", Passed)
           ELSE /\ pc' = [pc EXCEPT ![t] = Sends(request, vector_columns)]
                /\ held' = [held EXCEPT ![t] = Read(vector_columns)]
                /\ UNCHANGED <<req, gin, gout>>
    /\ UNCHANGED <<capacity, models, model_info, last_used, last, joined, at_entry,
                   lin, lout, cin, cout, ein, eout, bin, bout, sin, sout, rin, rout,
                   fin, fout>>

\* the search for the document has answered (line 148), or the range search
\* that follows an exact search without a hit (line 182)
DocumentAnswered(t, doc) ==
    /\ pc[t] \in {"document", "document_range"}
    /\ LET request == RequestOf(req[t])
       IN  IF pc[t] = "document" /\ SearchesRange(request.input_value, doc)
           THEN /\ pc' = [pc EXCEPT ![t] = "document_range"]
                /\ UNCHANGED <<req, held, gin, gout>>
           ELSE IF _get_vector_by_id(request.input_value, doc).raised
           THEN RecommendEnded(t, held[t].type, doc, Passed)
           ELSE /\ pc' = [pc EXCEPT ![t] = "knn"]
                /\ UNCHANGED <<req, held, gin, gout>>
    /\ UNCHANGED <<capacity, models, model_info, last_used, last, joined, at_entry,
                   lin, lout, cin, cout, ein, eout, bin, bout, sin, sout, rin, rout,
                   fin, fout>>

\* the KNN query has answered (line 302): the call returns its response or,
\* the database failing, raises
KnnAnswered(t, search) ==
    /\ pc[t] = "knn"
    /\ RecommendEnded(t, held[t].type,
                      IF req[t].type = ID THEN "vector" ELSE "unasked", search)
    /\ UNCHANGED <<capacity, models, model_info, last_used, last, joined, at_entry,
                   lin, lout, cin, cout, ein, eout, bin, bout, sin, sout, rin, rout,
                   fin, fout>>

\* the calls of concurrent requests, a step at a time
RecommendRuns ==
    \E t \in Tasks :
       \/ RecommendCalled(t)
       \/ \E answered \in BOOLEAN : ColumnsAnswered(t, answered)
       \/ \E doc \in Documents : DocumentAnswered(t, doc)
       \/ \E search \in {Passed, HTTPException(500)} : KnnAnswered(t, search)

NextRecommend == RecommendRuns \/ DeleteTableRuns

SpecRecommend == InitRecommend /\ [][NextRecommend]_vars

\* ------------------------------------- the embedding services on the manager
max_text_length == 8192
default_text_model == MiniLM
default_image_model == ClipB32

\* len(text) of the texts of a request
TextLengths == {1, max_text_length, max_text_length + 1}

\* the fields of a multi-field request: model_name is Optional
FieldInputs == [model_name : {None, MiniLM, ClipB32}, type : {TEXT, IMAGE}, weight : {1, 2}]

\* combine_method: Optional[CombineMethod] and normalize of a
\* MultiFieldEmbeddingRequest: every method with the default normalize, and
\* the default method without
Combinations ==
    {<<method, TRUE>> : method \in CombineMethod \cup {None}}
    \cup {<<WEIGHTED_AVERAGE, FALSE>>}

\* a text request, a multi-field request, a batch of `size` text requests of
\* one short text each for the default model
ServiceRequests ==
    {[NoService EXCEPT !.kind = "text", !.name = n, !.texts = texts, !.stage = "new"] :
        n \in {None, ClipB32},
        texts \in UNION {[1..k -> TextLengths] : k \in 1..MaxBatch}}
    \cup {[NoService EXCEPT !.kind = "multi_field", !.fields = fields,
                            !.combine_method = c[1], !.normalize = c[2],
                            !.stage = "new"] :
             fields \in UNION {[1..k -> FieldInputs] : k \in 1..MaxFields},
             c \in Combinations}
    \cup {[NoService EXCEPT !.kind = "batch", !.size = size, !.texts = <<1>>,
                            !.stage = "new"] :
             size \in {1, MaxBatch, max_batch_size + 1}}

\* the libraries all succeed
GoodEnv ==
    [open_clip |-> TRUE, st1 |-> TRUE, st2 |-> TRUE, clip |-> TRUE, fast |-> TRUE,
     slow |-> TRUE, to_device |-> TRUE, dimsrc |-> "config"]

\* the cache after the registered models `names` were loaded in that order
CacheOf(names) ==
    [i \in DOMAIN names |->
        [name |-> names[i],
         data |-> [Loader(names[i], available_models[names[i]].type, GoodEnv).data
                     EXCEPT !.id = 1]]]

ServiceCaches(cap) ==
    {CacheOf(names) :
        names \in {ns \in UNION {[1..k -> {MiniLM, ClipB32}] : k \in 0..2} :
                     /\ Len(ns) <= cap
                     /\ \A i, j \in DOMAIN ns : i # j => ns[i] # ns[j]}}

InitService ==
    /\ capacity \in 1..MaxCapacity
    /\ models \in ServiceCaches(capacity)
    /\ model_info =
          [n \in Names |->
              IF n \in Resident(models)
              THEN ModelInfo(Lookup(models, n).type, Lookup(models, n).dimensions)
              ELSE NoInfo]
    /\ last_used = [n \in Names |-> IF n \in Resident(models) THEN IndexOf(models, n) ELSE 0]
    /\ pc = [t \in Tasks |-> "idle"]
    /\ req = [t \in Tasks |-> NoReq]
    /\ held = [t \in Tasks |-> NoData]
    /\ last = NoRet
    /\ joined = {}
    /\ at_entry = NoSnapshot
    /\ lin = NoCall
    /\ lout = Raised(<<>>, <<>>)
    /\ cin = NoCombine
    /\ cout = CombineFails(None)
    /\ ein = NoEmbed
    /\ eout = EmbedFails(None, 0)
    /\ bin = NoBatch
    /\ bout = BatchFails(None, 0)
    /\ sin = NoRegistration
    /\ sout = SaveFails(None, <<>>)
    /\ rin = NoSearch
    /\ rout = <<>>
    /\ gin = NoRecommend
    /\ gout = NoResponse
    /\ fin \in ServiceRequests
    /\ fout = [done |-> FALSE, ok |-> FALSE, err |-> None, count |-> 0]

\* a validation of the texts that lets every text pass
TooLong_Never(texts) == FALSE

\* `if len(text) > settings.max_text_length` for some text of the request
TooLong(texts) == \E i \in DOMAIN texts : texts[i] > max_text_length

\* the tests a service makes before it calls the manager
Rejected(r) ==
    \/ r.kind = "text" /\ TooLong(r.texts)
    \/ r.kind = "batch" /\ r.size > max_batch_size

\* the service starts on the request: its validation
ServiceStart ==
    /\ fin.stage = "new"
    /\ IF Rejected(fin)
       THEN /\ fin' = [fin EXCEPT !.stage = "done"]
            /\ fout' = ServiceFails(IF fin.kind = "text" THEN "Text length exceeds maximum"
                                    ELSE "Batch size exceeds maximum")
       ELSE /\ fin' = [fin EXCEPT !.stage = "calling"]
            /\ UNCHANGED fout
    /\ UNCHANGED <<manager, bin, bout, sin, sout, rin, rout, gin, gout>>

\* a loop that takes the fields from the last to the first
FieldAt_Reversed(fields, pos) == fields[Len(fields) + 1 - pos]

\* `for field in request.fields`
FieldAt(fields, pos) == fields[pos]

\* field.model_name, else _get_default_model_for_type(field.type)
ModelFor(field) ==
    IF field.model_name # None THEN field.model_name
    ELSE IF field.type = TEXT THEN default_text_model
    ELSE default_image_model

\* the get_embedding calls the request is to make
CallsOwed(r) ==
    CASE r.kind = "multi_field" -> Len(r.fields)
      [] r.kind = "batch" -> r.size
      [] OTHER -> 1

\* the arguments of the next get_embedding call of the request
NextCall(r) ==
    IF r.kind = "multi_field"
    THEN LET field == FieldAt(r.fields, r.pos)
         IN  [name |-> ModelFor(field),
              content |-> IF field.type = TEXT THEN <<"text">> ELSE <<"b64">>,
              ctype |-> field.type]
    ELSE [name |-> IF r.name # None THEN r.name ELSE default_text_model,
          content |-> [i \in DOMAIN r.texts |-> "text"],
          ctype |-> TEXT]

\* the service calls model_manager.get_embedding
ServiceCall ==
    /\ fin.stage = "calling" /\ pc[1] = "idle"
    /\ LET c == NextCall(fin)
       IN  /\ req' = [req EXCEPT ![1] = [op |-> "get_embedding", name |-> c.name,
                                          type |-> None, force |-> FALSE,
                                          content |-> c.content, ctype |-> c.ctype,
                                          at |-> 0]]
           /\ fin' = [fin EXCEPT !.stage = "awaiting",
                                 !.calls = Append(@, [name |-> c.name, ctype |-> c.ctype])]
    /\ pc' = [pc EXCEPT ![1] = "pending"]
    /\ UNCHANGED <<capacity, models, model_info, held, last_used, last, joined, at_entry,
                   lin, lout, cin, cout, ein, eout, bin, bout, sin, sout, rin, rout,
                   gin, gout, fout>>

\* embedding[0] of a field: as many floats as the model has dimensions; the
\* service reads their number and hands them on, here they are all 1
FieldEmbedding(vec) == [i \in 1..vec.width |-> 1]

\* the end of generate_multi_field_embeddings, lines 56-64: the vectors kept
\* are combined by request.combine_method and the result is normalized when
\* the request asks for it; _combine_embeddings raises for a method it does
\* not know
Combination(r, embeddings, weights) ==
    generate_multi_field_embeddings(
        [embeddings |-> [i \in DOMAIN embeddings |-> FieldEmbedding(embeddings[i])],
         weights |-> weights, method |-> r.combine_method, normalize |-> r.normalize])

\* get_embedding has returned or raised: the vector is kept and the loop goes
\* on, or ends with the combination or the responses; an exception ends the
\* request
ServiceCollect ==
    /\ fin.stage = "awaiting" /\ pc[1] = "idle"
    /\ IF last.status # "ok"
       THEN /\ fin' = [fin EXCEPT !.stage = "done"]
            /\ fout' = ServiceFails(last.err)
       ELSE LET weight == IF fin.kind = "multi_field"
                          THEN FieldAt(fin.fields, fin.pos).weight ELSE 1
                more == fin.pos < CallsOwed(fin)
                embeddings == Append(fin.embeddings, last.vec)
                weights == Append(fin.weights, weight)
                combined == Combination(fin, embeddings, weights)
            IN  /\ fin' = [fin EXCEPT !.stage = IF more THEN "calling" ELSE "done",
                                      !.pos = @ + 1,
                                      !.embeddings = embeddings,
                                      !.weights = weights]
                /\ fout' = IF more THEN fout
                           ELSE IF fin.kind = "multi_field" /\ ~combined.ok
                           THEN ServiceFails(combined.err)
                           ELSE [done |-> TRUE, ok |-> TRUE, err |-> None,
                                 count |-> Len(embeddings)]
    /\ UNCHANGED <<manager, bin, bout, sin, sout, rin, rout, gin, gout>>

NextService ==
    \/ ServiceStart
    \/ ServiceCall
    \/ ServiceCollect
    \/ get_embedding_start(1)
    \/ ensure_memory_evict(1)
    \/ ensure_memory_done(1)
    \/ load_model_finish(1)
    \/ get_embedding_use(1)

SpecService == InitService /\ [][NextService]_vars

\* ------------------------------ the embedding service on the manager
\* the models the requests to the service are made for: one that
\* sentence-transformers loads, one that transformers loads, one of open_clip
EmbedNames == {MiniLM, ClipB32, MarqoB}

EmbedCaches(cap) ==
    {CacheOf(names) :
        names \in {ns \in UNION {[1..k -> EmbedNames] : k \in 0..cap} :
                     \A i, j \in DOMAIN ns : i # j => ns[i] # ns[j]}}

\* the manager after some loads and unloads of registered models, with no
\* call under way
CachedManager ==
    /\ capacity \in 1..MaxCapacity
    /\ models \in EmbedCaches(capacity)
    /\ model_info =
          [n \in EmbedNames |->
              IF n \in Resident(models)
              THEN ModelInfo(Lookup(models, n).type, Lookup(models, n).dimensions)
              ELSE NoInfo]
    /\ last_used =
          [n \in EmbedNames |-> IF n \in Resident(models) THEN IndexOf(models, n) ELSE 0]
    /\ pc = [t \in Tasks |-> "idle"]
    /\ req = [t \in Tasks |-> NoReq]
    /\ held = [t \in Tasks |-> NoData]
    /\ last = NoRet
    /\ joined = {}
    /\ at_entry = NoSnapshot
    /\ lin = NoCall
    /\ lout = Raised(<<>>, <<>>)
    /\ cin = NoCombine
    /\ cout = CombineFails(None)

\* the requests: texts, or images with what becomes of each
EmbedRequests ==
    UNION {{[name |-> n, backend |-> None, ctype |-> c, items |-> items, raw |-> raw,
             normalize |-> z, stage |-> "new"] :
               n \in {None, MiniLM, MarqoB}, items \in Batches(c), raw \in RawVectors,
               z \in BOOLEAN} : c \in {TEXT, IMAGE}}

InitEmbed ==
    /\ CachedManager
    /\ ein \in EmbedRequests
    /\ eout = EmbedFails(None, 0)
    /\ OthersAtRest

\* `request.model_name or settings.default_text_model`, and the same with
\* default_image_model
ModelOf(r) ==
    IF r.name # None THEN r.name
    ELSE IF r.ctype = TEXT THEN default_text_model
    ELSE default_image_model

\* the content get_embedding is called with
ContentOf(r) ==
    [i \in DOMAIN r.items |->
        IF r.ctype = TEXT THEN "text"
        ELSE IF r.items[i] = "ok" THEN "b64"
        ELSE IF r.items[i] \in {"fetched", "fetch_failed"} THEN "url"
        ELSE "text"]

\* `await self.model_manager.get_embedding(...)` for request r
Calls(r) ==
    /\ pc[1] = "idle"
    /\ req' = [req EXCEPT ![1] = [op |-> "get_embedding", name |-> ModelOf(r),
                                   type |-> None, force |-> FALSE,
                                   content |-> ContentOf(r), ctype |-> r.ctype, at |-> 0]]
    /\ pc' = [pc EXCEPT ![1] = "pending"]
    /\ UNCHANGED <<capacity, models, model_info, held, last_used, last, joined, at_entry,
                   lin, lout, cin, cout>>

\* what the service makes of what get_embedding returned or raised
EmbedResult(r, ret) ==
    IF ret.status = "ok"
    THEN generate_embeddings([r EXCEPT !.backend = ret.vec.backend])
    ELSE IF ret.err = "image_failed"
    THEN EmbedFails("Failed to process image", ret.index)
    ELSE EmbedFails(ret.err, 0)

\* generate_text_embeddings, generate_image_embeddings up to the call of
\* get_embedding (the texts are within settings.max_text_length)
EmbedCall ==
    /\ ein.stage = "new"
    /\ Calls(ein)
    /\ ein' = [ein EXCEPT !.stage = "awaiting"]
    /\ UNCHANGED <<eout, others>>

\* the download of the image the loop is at ends as r.items tells
Fetched(r) ==
    /\ pc[1] = "fetching" /\ pc[2] = "idle"
    /\ fetch_done(1, r.items[req[1].at] = "fetched")

EmbedFetched == ein.stage = "awaiting" /\ Fetched(ein)

\* while the download is awaited the event loop serves another request: an
\* unload_model
UnloadArrives ==
    /\ pc[1] = "fetching"
    /\ \E n \in DOMAIN model_info :
          Submit(2, [op |-> "unload_model", name |-> n, type |-> None, force |-> FALSE,
                     content |-> <<>>, ctype |-> None, at |-> 0])

\* the rest of generate_text_embeddings, generate_image_embeddings
EmbedCollect ==
    /\ ein.stage = "awaiting" /\ pc[1] = "idle"
    /\ eout' = EmbedResult(ein, last)
    /\ ein' = [ein EXCEPT !.stage = "done", !.backend = last.vec.backend]
    /\ UNCHANGED <<capacity, models, model_info, pc, req, held, last_used, last, joined,
                   at_entry, lin, lout, cin, cout, others>>

NextEmbed ==
    \/ EmbedCall
    \/ get_embedding_start(1)
    \/ ensure_memory_evict(1)
    \/ ensure_memory_done(1)
    \/ load_model_finish(1)
    \/ get_embedding_use(1)
    \/ EmbedFetched
    \/ UnloadArrives
    \/ unload_model(2)
    \/ EmbedCollect

SpecEmbed == InitEmbed /\ [][NextEmbed]_vars

\* --------------------------------------------- the batches on the manager
\* the batches of up to MaxRequests requests, and one of more requests
\* than settings.max_batch_size
InitBatch ==
    /\ CachedManager
    /\ ein = NoEmbed
    /\ eout = EmbedFails(None, 0)
    /\ \E requests \in BatchLists : bin = [NoBatch EXCEPT !.requests = requests, !.stage = "new"]
    /\ bout = BatchFails(None, 0)
    /\ sin = NoRegistration
    /\ sout = SaveFails(None, <<>>)
    /\ rin = NoSearch
    /\ rout = <<>>
    /\ ServicesAtRest

\* `if len(requests) > settings.max_batch_size`, then the loop begins
BatchStart ==
    /\ bin.stage = "new"
    /\ IF Len(bin.requests) > max_batch_size
       THEN /\ bout' = BatchFails("Batch size exceeds maximum", 0)
            /\ bin' = [bin EXCEPT !.stage = "done"]
       ELSE IF bin.requests = <<>>
       THEN /\ bout' = BatchDone(<<>>)
            /\ bin' = [bin EXCEPT !.stage = "done"]
       ELSE /\ bin' = [bin EXCEPT !.stage = "calling"]
            /\ UNCHANGED bout
    /\ UNCHANGED <<manager, sin, sout, rin, rout, services>>

\* one turn of the loop up to the call of get_embedding: the request is
\* handed to the service of its class, or it is of neither class
BatchCall ==
    /\ bin.stage = "calling"
    /\ IF bin.requests[bin.pos].class \in {TextEmbeddingRequest, ImageEmbeddingRequest}
       THEN /\ Calls(bin.requests[bin.pos])
            /\ bin' = [bin EXCEPT !.stage = "awaiting"]
            /\ UNCHANGED bout
       ELSE /\ bout' = BatchFails("Unsupported request type", bin.pos)
            /\ bin' = [bin EXCEPT !.stage = "done"]
            /\ UNCHANGED <<capacity, models, model_info, pc, req, held, last_used, last,
                           joined, at_entry, lin, lout, cin, cout>>
    /\ UNCHANGED <<ein, eout, sin, sout, rin, rout, services>>

BatchFetched == bin.stage = "awaiting" /\ Fetched(bin.requests[bin.pos])

\* a loop that appends what a request came to, whatever it is
Raises_Never(result) == FALSE

\* `result = await self.generate_..._embeddings(request)` raises what the
\* call raises
Raises(result) == ~result.ok

\* the rest of the turn: the response is appended to `results`, and after
\* the last request `results` is returned
BatchCollect ==
    /\ bin.stage = "awaiting" /\ pc[1] = "idle"
    /\ LET result == EmbedResult(bin.requests[bin.pos], last)
           seen == [bin EXCEPT !.requests[bin.pos].backend = last.vec.backend]
       IN  IF Raises(result)
           THEN /\ bout' = BatchFails(result.err, bin.pos)
                /\ bin' = [seen EXCEPT !.stage = "done"]
           ELSE IF bin.pos = Len(bin.requests)
           THEN /\ bout' = BatchDone(Append(bin.results, result))
                /\ bin' = [seen EXCEPT !.stage = "done", !.results = Append(@, result)]
           ELSE /\ bin' = [seen EXCEPT !.stage = "calling", !.pos = @ + 1,
                                       !.results = Append(@, result)]
                /\ UNCHANGED bout
    /\ UNCHANGED <<manager, sin, sout, rin, rout, services>>

NextBatch ==
    \/ BatchStart
    \/ BatchCall
    \/ get_embedding_start(1)
    \/ ensure_memory_evict(1)
    \/ ensure_memory_done(1)
    \/ load_model_finish(1)
    \/ get_embedding_use(1)
    \/ BatchFetched
    \/ UnloadArrives
    \/ unload_model(2)
    \/ BatchCollect

SpecBatch == InitBatch /\ [][NextBatch]_vars

\* ================================================================ claims
\* the names of an OrderedDict without one of them, in order
Without(ms, name) ==
    LET Keep(x) == x # name IN SelectSeq(NamesOf(ms), Keep)

\* task t runs the first step of its handler in this step
StartsNow(t) == pc[t] = "pending" /\ pc'[t] # "pending"

MinUsed(ms, lu, n) == \A m \in Resident(ms) : lu[n] <= lu[m]

\* C1: with calls made one at a time and capacity >= 1, the number of
\* resident models never exceeds the capacity, whatever load_model,
\* get_embedding and unload_model calls were made and however they ended.
C1_CapacityBound == capacity >= 1 => Len(models) <= capacity

\* a load has completed into a full cache from which a model had to leave
C1_Witness ==
    /\ pc[1] = "idle" /\ last.via = "loaded"
    /\ Len(models) = capacity
    /\ \E n \in Names : model_info[n].present /\ ~model_info[n].is_loaded

\* C2: every eviction made to free capacity removes exactly one model, the
\* resident one whose most recent use (stored by a load, hit by load_model,
\* used by get_embedding) is the oldest.
C2_EvictsLeastRecentlyUsed ==
    [][\A t \in Tasks :
          (pc[t] = "ensuring" /\ models' # models) =>
             \E n \in Resident(models) :
                /\ MinUsed(models, last_used, n)
                /\ Resident(models') = Resident(models) \ {n}
                /\ NamesOf(models') = Without(models, n)]_vars

\* capacity 2: after A and B were loaded and A was used again by
\* get_embedding, the load of C has evicted B and kept A
C2_Witness ==
    /\ capacity = 2
    /\ pc[1] = "loading" /\ req[1].op = "load_model" /\ req[1].name = Custom
    /\ last.status = "ok" /\ last.vec.width = 384
    /\ NamesOf(models) = <<MiniLM>>
    /\ model_info[ClipB32].present /\ ~model_info[ClipB32].is_loaded

\* C3: load_model of a resident name without force_reload ends in its first
\* step, with no loader run and no eviction: the same model objects stay
\* resident, the name becomes the most recently used, the other names keep
\* their order, and the stored ModelInfo is returned.
C3_HitFrame ==
    [][\A t \in Tasks :
          (/\ StartsNow(t)
           /\ req[t].op = "load_model" /\ ~req[t].force
           /\ req[t].name \in Resident(models)) =>
             /\ pc'[t] = "idle"
             /\ Resident(models') = Resident(models)
             /\ \A n \in Resident(models) : Lookup(models', n) = Lookup(models, n)
             /\ models'[Len(models')].name = req[t].name
             /\ Without(models', req[t].name) = Without(models, req[t].name)
             /\ model_info' = model_info
             /\ last'.status = "ok" /\ last'.info = model_info[req[t].name]]_vars

\* a hit has moved a model that was not the most recent one to the end
C3_Witness ==
    /\ pc[1] = "idle" /\ last.via = "hit"
    /\ Len(models) = 2
    /\ last_used[models[2].name] = 2
    /\ last.info = model_info[models[2].name]

\* C4: unload_model of a name that is not resident returns false and changes
\* nothing; of a resident name it returns true, the name is no longer
\* resident, the other models stay in their order, and the size is one less,
\* hence below the capacity: the next load finds a free slot and evicts
\* nothing.
C4_Unload ==
    [][\A t \in Tasks :
          (StartsNow(t) /\ req[t].op = "unload_model") =>
             /\ pc'[t] = "idle" /\ last'.status = "ok"
             /\ IF req[t].name \in Resident(models)
                THEN /\ last'.flag = TRUE
                     /\ req[t].name \notin Resident(models')
                     /\ NamesOf(models') = Without(models, req[t].name)
                     /\ Len(models') = Len(models) - 1
                     /\ Len(models') < capacity
                ELSE /\ last'.flag = FALSE
                     /\ models' = models /\ model_info' = model_info
                     /\ last_used' = last_used]_vars

\* a model was unloaded from a full cache, which now has one free slot
C4_Witness ==
    /\ pc[1] = "idle" /\ last.status = "ok" /\ last.flag = TRUE
    /\ capacity = 2 /\ Len(models) = 1

\* C5: under every interleaving of concurrent load_model and get_embedding
\* calls, the number of resident models never exceeds the capacity, no name
\* occurs twice in the recency order, and the order is the order of the
\* resident names' most recent uses.
C5_ConcurrentCacheSound ==
    /\ Len(models) <= capacity
    /\ \A i, j \in DOMAIN models : models[i].name = models[j].name => i = j
    /\ \A n \in Names : n \in Resident(models) <=> last_used[n] # 0
    /\ \A i, j \in DOMAIN models :
          i < j => last_used[models[i].name] < last_used[models[j].name]

\* while one call waits for an image download, a load for another name has
\* evicted the model that call uses and is about to store its own
C5_Witness ==
    /\ \E t \in Tasks : pc[t] = "fetching" /\ req[t].name \notin Resident(models)
    /\ \E t \in Tasks : pc[t] = "loading" /\ req[t].op = "load_model"
    /\ Len(models) = capacity - 1

\* the calls of load_model in flight for a name: past the test for a hit,
\* not yet stored
InFlight(n) == {t \in Tasks : pc[t] \in {"ensuring", "loading"} /\ req[t].name = n}

\* C6: a call that waited while a load of its name was in flight never runs
\* the loader for that name itself: the loader runs once for the callers
\* that were concurrent, and the others take the result of that load.
C6_LoaderOnceForConcurrentCalls ==
    \A u \in joined : pc[u] \notin {"ensuring", "loading"}

\* a load of a name is in flight, alone, while another call for the same
\* name waits
C6_Witness ==
    \E t, u \in Tasks :
       /\ t # u
       /\ pc[t] = "loading" /\ pc[u] = "pending"
       /\ req[t].name = req[u].name
       /\ req[u].op = "load_model" /\ u \in joined
       /\ InFlight(req[t].name) = {t}

\* C7: get_embedding of a name that is not resident loads it, with the type
\* the registry gives, by the steps of load_model (evictions first) exactly
\* when the name is in the registry; otherwise it fails as "not loaded"
\* and leaves the cache as it was.
C7_AutoLoadIffRegistered ==
    [][\A t \in Tasks :
          /\ (/\ StartsNow(t) /\ req[t].op = "get_embedding"
              /\ req[t].name \notin Resident(models)) =>
                /\ models' = models /\ model_info' = model_info
                /\ IF req[t].name \in DOMAIN available_models
                   THEN pc'[t] = "ensuring" /\ last' = last
                   ELSE pc'[t] = "idle" /\ last'.err = "model_not_loaded"
          /\ (/\ pc[t] = "loading" /\ req[t].op = "get_embedding"
              /\ pc'[t] = "embedding") =>
                /\ req[t].name \in Resident(models')
                /\ model_info'[req[t].name].type = available_models[req[t].name].type
                /\ model_info'[req[t].name].is_loaded]_vars

\* a get_embedding call has evicted a model and is loading the one it needs
C7_Witness ==
    /\ pc[1] = "loading" /\ req[1].op = "get_embedding"
    /\ Len(models) = capacity - 1
    /\ \E n \in Names : model_info[n].present /\ ~model_info[n].is_loaded

\* a model that was resident and is not any more
Gone(n) == model_info[n].present /\ ~model_info[n].is_loaded /\ n \notin Resident(models)

\* C8: get_embedding of a registry model that was resident and has been
\* evicted goes through a new load, never fails as "not loaded", and for
\* text returns one vector per text, of the dimension the registry declares,
\* as soon as the loader succeeds.
C8_EvictedModelUsableAgain ==
    [][\A t \in Tasks :
          /\ (/\ StartsNow(t) /\ req[t].op = "get_embedding"
              /\ req[t].name \in DOMAIN available_models /\ Gone(req[t].name)) =>
                pc'[t] = "ensuring"
          /\ (/\ req[t].op = "get_embedding" /\ req[t].name \in DOMAIN available_models
              /\ pc[t] # "idle" /\ pc'[t] = "idle") =>
                /\ last'.err # "model_not_loaded"
                /\ (pc[t] = "embedding" /\ req[t].ctype = TEXT) =>
                      /\ last'.status = "ok"
                      /\ last'.vec.count = Len(req[t].content)
                      /\ last'.vec.width = available_models[req[t].name].dimensions]_vars

\* capacity 1: m1 was loaded, the load of m2 evicted it, and get_embedding
\* of m1 has evicted m2 and loaded m1 again
C8_Witness ==
    /\ capacity = 1
    /\ pc[1] = "embedding" /\ req[1].op = "get_embedding" /\ req[1].name = MiniLM
    /\ req[1].ctype = TEXT
    /\ NamesOf(models) = <<MiniLM>>
    /\ Gone(ClipB32)
    /\ last.via = "loaded" /\ last.info.dimensions = 512
\* the strategies of a loader call that failed, in the order they were tried
FailedAttempts(attempts) ==
    LET Failed(a) == ~a.ok
        failed == SelectSeq(attempts, Failed)
    IN  [i \in DOMAIN failed |-> failed[i].s]

\* C9: when the loader fails, the error it raises names every strategy that
\* was tried and failed, in the order they were tried.
C9_ErrorListsEveryAttempt ==
    (lin.done /\ ~lout.ok) => lout.reported = FailedAttempts(lout.attempts)

\* the loader has failed after more than one strategy was tried
C9_Witness ==
    /\ lin.done /\ ~lout.ok
    /\ Len(FailedAttempts(lout.attempts)) = 4
    /\ lout.reported = <<ST>>
\* C10: the combiner fails with the unsupported-method error for every
\* method other than weighted_average, concatenate and max_pool, and it fails,
\* whatever the method, when there are no fields; it returns no vector then.
C10_CombineRejects ==
    cin.done =>
       /\ (cin.embeddings # <<>> /\ cin.method \notin {WEIGHTED_AVERAGE, CONCATENATE, MAX_POOL}) =>
             ~cout.ok /\ cout.err = "Unsupported combine method"
       /\ cin.embeddings = <<>> => ~cout.ok

\* the combiner was given no fields and returned the empty vector
C10_Witness ==
    /\ cin.done /\ cin.embeddings = <<>> /\ cin.method = CONCATENATE
    /\ cout.ok /\ cout.vec = <<>>
\* component i of a field vector reconciled to another length: its own
\* component, or zero past its end
At(e, i) == IF i <= Len(e) THEN e[i] ELSE 0

\* C11: a combine call with method max_pool returns, for each component of
\* the first field's vector, the maximum over the fields of weight times the
\* field's component (zero past the field's end).
C11_MaxPoolReturnsMaximum ==
    (cin.done /\ cin.method = MAX_POOL /\ cin.embeddings # <<>>) =>
       /\ cout.ok
       /\ Len(cout.vec) = Len(cin.embeddings[1])
       /\ \A i \in DOMAIN cout.vec :
             cout.vec[i] =
                Frac(Max({At(cin.embeddings[j], i) * cin.weights[j] :
                             j \in DOMAIN cin.embeddings}), 1)

\* a max_pool call on two fields was rejected as an unsupported method
C11_Witness ==
    /\ cin.done /\ cin.method = MAX_POOL /\ Len(cin.embeddings) = 2
    /\ ~cout.ok /\ cout.err = "Unsupported combine method"
\* a vector of Euclidean length 1
IsUnit(x) ==
    /\ x.over.n > 0 /\ NormSq(x.vec).d > 0
    /\ NormSq(x.vec).n * x.over.d = x.over.n * NormSq(x.vec).d

\* C12: the vectors the service returns from a SentenceTransformer model
\* have length 1 exactly when the request asked for normalization (taken on
\* inputs whose raw vector is neither zero nor of length 1 already).
C12_NormalizedIffRequested ==
    (/\ ein.stage = "done" /\ ein.backend = ST /\ eout.ok
     /\ ~IsUnit([vec |-> Scalars(ein.raw), over |-> One])
     /\ NormSq(Scalars(ein.raw)).n > 0) =>
        \A i \in DOMAIN eout.vecs : IsUnit(eout.vecs[i]) <=> ein.normalize

\* a request without normalization got a unit vector for the raw vector (2)
C12_Witness ==
    /\ ein.stage = "done" /\ ein.backend = ST /\ ~ein.normalize /\ ein.raw = <<2>>
    /\ eout.ok /\ IsUnit(eout.vecs[1])

\* C14: an image batch with an item that cannot be fetched or decoded fails
\* as a whole: the error carries the index (from 0) of the first such item,
\* no inference runs and no vector is returned; a batch without one succeeds
\* with one vector per image (taken on the calls for which get_embedding had
\* a model, loaded before or by the call).
C14_ImageFailureFailsBatch ==
    (ein.stage = "done" /\ ein.ctype = IMAGE /\ ein.backend # None) =>
       IF \E i \in DOMAIN ein.items : ~Usable(ein.items[i])
       THEN /\ ~eout.ok /\ eout.err = "Failed to process image"
            /\ eout.index + 1 \in DOMAIN ein.items
            /\ ~Usable(ein.items[eout.index + 1])
            /\ \A j \in 1..eout.index : Usable(ein.items[j])
            /\ eout.vecs = <<>> /\ eout.inferences = 0
       ELSE eout.ok /\ Len(eout.vecs) = Len(ein.items)

\* a batch of two images that both fail was refused for the first one
C14_Witness ==
    /\ ein.stage = "done" /\ ein.ctype = IMAGE /\ ein.backend # None
    /\ ein.items = <<"decode_failed", "fetch_failed">>
    /\ ~eout.ok /\ eout.index = 0 /\ eout.vecs = <<>>
\* C13: a stored model leaves the cache, or gives way to another object,
\* only in a step of unload_model or of the eviction loop.
C13_LeavesOnlyByEvict ==
    [][\A n \in Resident(models) :
          (n \notin Resident(models') \/ Lookup(models', n) # Lookup(models, n)) =>
             \E t \in Tasks :
                \/ pc[t] = "ensuring"
                \/ StartsNow(t) /\ req[t].op = "unload_model"]_vars

\* a forced reload has stored a second object for a name whose first object
\* was still in the cache
C13_Witness ==
    /\ pc[1] = "idle" /\ last.via = "loaded"
    /\ \E i \in DOMAIN models : models[i].data.id = 2
\* the numerator of component i of a weighted sum of the reconciled fields
WeightedSum(embeddings, weights, i) ==
    SumSeq([j \in DOMAIN embeddings |-> At(embeddings[j], i) * weights[j]])

\* C15: under weighted_average the result has the length of the first
\* field's vector, and each field enters with its components up to that
\* length and zeros past its own end.
C15_ReconciledToFirstLength ==
    (cin.done /\ cin.method = WEIGHTED_AVERAGE /\ cin.embeddings # <<>>) =>
       /\ cout.ok
       /\ Len(cout.vec) = Len(cin.embeddings[1])
       /\ \A i \in DOMAIN cout.vec :
             cout.vec[i].n = WeightedSum(cin.embeddings, cin.weights, i)

\* a shorter second field was padded and a result of the first length returned
C15_Witness ==
    /\ cin.done /\ cin.method = WEIGHTED_AVERAGE /\ cout.ok
    /\ Len(cin.embeddings) = 2
    /\ Len(cin.embeddings[1]) = 2 /\ Len(cin.embeddings[2]) = 1
    /\ cin.weights[2] # 0
    /\ Len(cout.vec) = 2

\* C16: when the weights do not sum to zero, weighted_average returns the
\* weighted sum of the reconciled fields divided by the sum of the weights:
\* fields that are all the same vector with the same weight give that
\* vector, and when only one field has a weight other than zero the result
\* is that field, reconciled.
C16_WeightedAverageValue ==
    (/\ cin.done /\ cin.method = WEIGHTED_AVERAGE /\ cin.embeddings # <<>>
     /\ SumSeq(cin.weights) # 0) =>
       /\ cout.ok
       /\ \A i \in DOMAIN cout.vec :
             /\ cout.vec[i].d = SumSeq(cin.weights)
             /\ (\A j \in DOMAIN cin.embeddings :
                    /\ cin.embeddings[j] = cin.embeddings[1]
                    /\ cin.weights[j] = cin.weights[1]) =>
                   cout.vec[i].n = cin.embeddings[1][i] * cout.vec[i].d
             /\ \A k \in DOMAIN cin.embeddings :
                   (\A j \in DOMAIN cin.embeddings : j # k => cin.weights[j] = 0) =>
                      cout.vec[i].n = At(cin.embeddings[k], i) * cout.vec[i].d

\* two fields, the first with weight zero: the result is the second field
C16_Witness ==
    /\ cin.done /\ cin.method = WEIGHTED_AVERAGE /\ cout.ok
    /\ cin.embeddings = << <<-1, 2>>, <<2, 2>> >>
    /\ cin.weights = <<0, 2>>
    /\ cout.vec = <<Frac(4, 2), Frac(4, 2)>>

\* where field j begins in the concatenation
Offset(embeddings, j) == SumSeq([i \in 1..(j - 1) |-> Len(embeddings[i])])

\* C17: concatenate returns the fields one after the other in input order,
\* each at its own length and multiplied by its own weight, so that the
\* result is as long as the fields together.
C17_Concatenate ==
    (cin.done /\ cin.method = CONCATENATE) =>
       /\ cout.ok
       /\ Len(cout.vec) = SumSeq([j \in DOMAIN cin.embeddings |-> Len(cin.embeddings[j])])
       /\ \A j \in DOMAIN cin.embeddings : \A k \in DOMAIN cin.embeddings[j] :
             cout.vec[Offset(cin.embeddings, j) + k] =
                Frac(cin.embeddings[j][k] * cin.weights[j], 1)

\* fields of lengths 1 and 2 with different weights were joined
C17_Witness ==
    /\ cin.done /\ cin.method = CONCATENATE /\ cout.ok
    /\ cin.embeddings = << <<2>>, <<-1, 2>> >>
    /\ cin.weights = <<2, 1>>
    /\ cout.vec = <<Frac(4, 1), Frac(-1, 1), Frac(2, 1)>>

\* a combined vector of numbers, and one whose components are all zero
IsFinite(vec) == \A i \in DOMAIN vec : vec[i].d # 0
IsZero(vec) == \A i \in DOMAIN vec : vec[i].n = 0

\* C18: the combined vector is divided by its norm only when the request
\* asks for normalization; then a zero vector is returned as it is, with no
\* division by zero, and a vector of numbers other than zero comes back with
\* length 1.
C18_FinalNormalization ==
    (cin.done /\ cout.ok) =>
       /\ cout.over.n # 0 /\ cout.over.d # 0
       /\ ~cin.normalize => cout.over = One
       /\ (cin.normalize /\ IsZero(cout.vec)) => cout.over = One
       /\ (cin.normalize /\ IsFinite(cout.vec) /\ ~IsZero(cout.vec)) => IsUnit(cout)

\* a zero vector came out of a normalized request as it went in
C18_Witness ==
    /\ cin.done /\ cin.normalize /\ cout.ok
    /\ cin.method = WEIGHTED_AVERAGE
    /\ cout.vec = <<Frac(0, 3)>> /\ cout.over = One
\* C19: while one call is inside a model load, a waiting call that only
\* needs another, resident model (a cache hit of load_model) can take its
\* step.
C19_OthersProgressDuringLoad ==
    \A t, u \in Tasks :
       (/\ pc[t] = "loading" /\ pc[u] = "pending"
        /\ req[u].op = "load_model"
        /\ req[u].name # req[t].name
        /\ IsHit(models, req[u].name, req[u].force)) =>
          ENABLED load_model_hit(u)

\* a load is running while a call for another, resident model waits
C19_Witness ==
    \E t, u \in Tasks :
       /\ pc[t] = "loading" /\ pc[u] = "pending"
       /\ req[u].op = "load_model"
       /\ req[u].name # req[t].name
       /\ req[u].name \in Resident(models)
\* C20: a load whose backend does not respond is ended by a timeout: the
\* call that waits in it can take a step, with which it fails and returns.
C20_LoadEndsByTimeout ==
    \A t \in Tasks : pc[t] = "hung" => ENABLED Handler(t)

\* a load_model call waits in a loader that does not return, after the
\* eviction it asked for
C20_Witness ==
    /\ pc[1] = "hung" /\ req[1].op = "load_model"
    /\ models = <<>>
    /\ \E n \in Names : Gone(n)

\* the first request of a batch at which a turn of the loop raises
FirstFailing(requests) ==
    CHOOSE i \in DOMAIN requests :
       MemberFails(requests[i]) /\ \A j \in 1..(i - 1) : ~MemberFails(requests[j])

\* what get_embedding raises when it has no model for the request
NoModelErrors == {"load_failed", "unsupported_model_type", "model_not_loaded", "ValidationError"}

\* C21: generate_batch_embeddings either returns one response per request,
\* the i-th being the response to the i-th request, or it fails as a whole
\* on the first request that fails (or on a batch above max_batch_size) and
\* returns no response at all.
C21_BatchAllOrNothing ==
    bin.stage = "done" =>
       IF bout.ok
       THEN /\ Len(bout.responses) = Len(bin.requests)
            /\ \A i \in DOMAIN bin.requests :
                  /\ ~MemberFails(bin.requests[i])
                  /\ bout.responses[i] = generate_embeddings(bin.requests[i])
       ELSE /\ bout.responses = <<>>
            /\ \/ Len(bin.requests) > max_batch_size /\ bout.at = 0
               \/ /\ bout.at \in DOMAIN bin.requests
                  /\ \A j \in 1..(bout.at - 1) : ~MemberFails(bin.requests[j])
                  /\ \/ bout.err \in NoModelErrors
                     \/ /\ bout.at = FirstFailing(bin.requests)
                        /\ bout.err = MemberError(bin.requests[bout.at])

\* a batch whose first two requests were embedded has failed on its third,
\* whose second image could not be downloaded
C21_Witness ==
    /\ bin.stage = "done" /\ ~bout.ok
    /\ Len(bin.requests) = 3 /\ bout.at = 3
    /\ bin.requests[1].class # bin.requests[2].class
    /\ bout.err = "Failed to process image"
    /\ Len(bin.results) = 2 /\ bout.responses = <<>>

\* C22: the registration of a column whose model has dimensions (the model is
\* loaded or in the registry), on a database that accepts the INSERT,
\* succeeds, and a lookup of the column then returns the model and the
\* combination weights registered.
C22_RegistrationPersists ==
    (/\ sin.done
     /\ get_model_dimensions(sin.ms, sin.model_name) # 0
     /\ sin.db.insert
     /\ sin.rows = <<>>) =>
       /\ sout.ok
       /\ LET result == get_vector_column_settings(sout.rows, sin.table_name,
                                                   sin.column_name, TRUE)
          IN  /\ result.found
              /\ result.model_name = sin.model_name
              /\ result.combined_fields = sin.combined_fields

\* a registration for a model of the registry has ended with the TypeError
\* and the table is as it was
C22_Witness ==
    /\ sin.done /\ ~sout.ok /\ sout.err = "TypeError"
    /\ sin.model_name = ClipB32 /\ sin.db.insert
    /\ sout.rows = sin.rows

\* C23: a similarity search returns at most `limit` items, and with
\* exclude_self and an id as input none of them is the document stage 1
\* found.
C23_LimitAndExcludeSelf ==
    rin.done =>
       /\ Len(rout) <= rin.request.limit
       /\ (rin.request.exclude_self /\ rin.request.input_type = ID) =>
             \A i \in DOMAIN rout : Str(rout[i].id) # Str(rin.actual_reference_doc_id)

\* the document found in stage 1 has another id than the one asked for, the
\* database returned it among more than `limit` rows, and it was left out
C23_Witness ==
    /\ rin.done
    /\ rin.request.exclude_self /\ rin.request.input_type = ID
    /\ Str(rin.actual_reference_doc_id) # Str(rin.request.input_value)
    /\ rin.actual_reference_doc_id.json = "string"
    /\ \E i \in DOMAIN rin.hits : Str(rin.hits[i].id) = Str(rin.actual_reference_doc_id)
    /\ Len(rin.hits) > rin.request.limit
    /\ Len(rout) = rin.request.limit

\* a load_model call ends with an error
LoadFails(t) == pc[t] = "loading" /\ pc'[t] = "idle" /\ last'.status = "err"

\* C24: when load_model fails, by an error of the loader or by a model_type
\* that is none of text, image, multimodal, the cache is the one the call
\* found: the same models in the same order, the same ModelInfo records.
C24_FailedLoadLeavesCache ==
    [][\A t \in Tasks :
          LoadFails(t) =>
             /\ models' = at_entry.models
             /\ model_info' = at_entry.model_info]_vars

\* capacity 1: a load has failed, and the model that was resident when it
\* began is no longer there
C24_Witness ==
    /\ capacity = 1 /\ pc[1] = "idle"
    /\ last.status = "err" /\ last.err = "unsupported_model_type"
    /\ models = <<>>
    /\ Gone(MiniLM)

\* C25: a forced reload of a resident name that succeeds leaves the set of
\* resident names as the call found it, with the name most recently used.
C25_ForcedReloadKeepsOthers ==
    [][\A t \in Tasks :
          (/\ pc[t] = "loading" /\ pc'[t] = "idle" /\ last'.status = "ok"
           /\ req[t].op = "load_model" /\ req[t].force
           /\ req[t].name \in Resident(at_entry.models)) =>
             /\ Resident(models') = Resident(at_entry.models)
             /\ models'[Len(models')].name = req[t].name]_vars

\* capacity 2: the forced reload of one of two resident models has ended and
\* the other one is gone
C25_Witness ==
    /\ capacity = 2 /\ pc[1] = "idle"
    /\ last.status = "ok" /\ last.via = "loaded"
    /\ NamesOf(models) = <<ClipB32>>
    /\ \E i \in DOMAIN models : models[i].data.id = 2
    /\ Gone(MiniLM)

\* C26: when the loader runs the cache holds at most capacity - 1 models,
\* no model leaves the cache while the loader runs or with the insert, and a
\* call that has come to its loader does not go back to the eviction loop.
C26_EvictionsBeforeLoader ==
    [][\A t \in Tasks :
          /\ pc[t] = "loading" =>
                /\ Len(models) <= capacity - 1
                /\ Resident(models) \subseteq Resident(models')
                /\ Len(models') <= capacity
          /\ pc[t] \in {"loading", "hung", "embedding", "fetching"} =>
                pc'[t] # "ensuring"]_vars

\* the loader is about to run on a cache the eviction loop has brought from
\* capacity down to capacity - 1
C26_Witness ==
    /\ pc[1] = "loading"
    /\ at_entry.taken /\ Len(at_entry.models) = capacity
    /\ Len(models) = capacity - 1
    /\ capacity = 2

\* the registry marks the model for the open_clip backend
AutoResolve(name) == InRegistry(name) /\ available_models[name].use_auto_model

\* the name or the registry asks for SentenceTransformer
SentenceEmbedding(name) ==
    \/ STNamed(name)
    \/ InRegistry(name) /\ available_models[name].force_sentence_transformers

\* C27: whatever model_type is given, a model the registry marks for
\* open_clip is attempted through open_clip only; else a model whose name or
\* registry entry asks for SentenceTransformer is loaded through it, in one
\* attempt; else the first attempt is the backend of the model_type
\* (SentenceTransformer for text, the CLIP model for image and multimodal).
C27_StrategyPrecedence ==
    (lin.done /\ lin.type \in ModelType) =>
       IF AutoResolve(lin.name)
       THEN \A i \in DOMAIN lout.attempts : lout.attempts[i].s = OPEN_CLIP
       ELSE IF SentenceEmbedding(lin.name)
       THEN lout.attempts = <<Att(ST, lout.ok)>>
       ELSE /\ lout.attempts # <<>>
            /\ lout.attempts[1].s = IF lin.type = TEXT THEN ST ELSE CLIP_MODEL

\* a model the registry marks for open_clip was asked for as a text model
\* and has been loaded through SentenceTransformer
C27_Witness ==
    /\ lin.done /\ lin.name = MarqoB /\ lin.type = TEXT
    /\ lout.ok /\ lout.data.model = ST
    /\ lout.attempts = <<Att(ST, TRUE)>>

\* the load of a model through the branch for raw CLIP models
NativeLoad ==
    /\ lin.done /\ lin.type \in {IMAGE, MULTIMODAL}
    /\ ~AutoResolve(lin.name) /\ ~SentenceEmbedding(lin.name)

\* the place of a strategy in the chain
Rank(s) ==
    CASE s = CLIP_MODEL -> 1
      [] s = PROCESSOR_FAST -> 2
      [] s = PROCESSOR_SLOW -> 3
      [] s = ST -> 4
      [] OTHER -> 0

\* C28: a load through the CLIP branch begins with the CLIP model and never
\* attempts a strategy after one that comes later in the chain CLIP model,
\* fast processor, slow processor, SentenceTransformer; a processor or a
\* fallback that succeeds is the last attempt; SentenceTransformer is
\* attempted only after the CLIP model failed or both processors failed; and
\* the load succeeds, with the SentenceTransformer model, whenever a
\* SentenceTransformer attempt succeeds.
C28_NativeChainOrder ==
    NativeLoad =>
       LET a == lout.attempts
       IN  /\ a # <<>> /\ a[1].s = CLIP_MODEL
           /\ \A i, j \in DOMAIN a : i < j => Rank(a[i].s) <= Rank(a[j].s)
           /\ a[1].ok => (Len(a) >= 2 /\ a[2].s = PROCESSOR_FAST)
           /\ \A i \in DOMAIN a : (a[i].ok /\ a[i].s # CLIP_MODEL) => i = Len(a)
           /\ \A i \in DOMAIN a :
                 a[i].s = ST =>
                    \/ a[1] = Att(CLIP_MODEL, FALSE)
                    \/ /\ i > 3
                       /\ a[2] = Att(PROCESSOR_FAST, FALSE)
                       /\ a[3] = Att(PROCESSOR_SLOW, FALSE)
           /\ (\E i \in DOMAIN a : a[i] = Att(ST, TRUE)) =>
                 (lout.ok /\ lout.data.model = ST)
           /\ lout.ok = a[Len(a)].ok

\* the CLIP model and its fast processor were constructed, the move of the
\* model to the device failed, and the SentenceTransformer fallback was
\* attempted next and loaded the model
C28_Witness ==
    /\ NativeLoad /\ lout.ok /\ ~lin.env.to_device
    /\ lout.attempts = <<Att(CLIP_MODEL, TRUE), Att(PROCESSOR_FAST, TRUE), Att(ST, TRUE)>>
    /\ lout.data.model = ST

\* C29: no strategy is attempted twice in one call of the loader.
C29_EachStrategyOnce ==
    lin.done =>
       \A i, j \in DOMAIN lout.attempts :
          i # j => lout.attempts[i].s # lout.attempts[j].s

\* both processors failed, the fallback failed, and SentenceTransformer was
\* constructed a second time
C29_Witness ==
    /\ lin.done /\ Len(lout.attempts) = 5
    /\ lout.attempts[4].s = ST /\ lout.attempts[5].s = ST
    /\ ~lout.attempts[4].ok

\* C30: when open_clip fails for a model the registry marks for it, or the
\* name has no open_clip alias, the load fails with no other strategy
\* attempted, and nothing is stored.
C30_AutoResolveFailureIsTerminal ==
    (/\ lin.done /\ lin.type \in {IMAGE, MULTIMODAL} /\ AutoResolve(lin.name)
     /\ (OpenClipAlias(lin.name) = None \/ ~lin.env.open_clip)) =>
       /\ ~lout.ok
       /\ \A i \in DOMAIN lout.attempts : lout.attempts[i] = Att(OPEN_CLIP, FALSE)
       /\ Len(lout.attempts) <= 1
       /\ models = <<>>

\* open_clip has failed for the Marqo model
C30_Witness ==
    /\ lin.done /\ lin.name = MarqoB /\ lin.type = MULTIMODAL
    /\ ~lin.env.open_clip
    /\ ~lout.ok /\ lout.attempts = <<Att(OPEN_CLIP, FALSE)>>
    /\ models = <<>>
\* C31: a name is resident exactly when it has a ModelInfo with is_loaded
\* true: list_models reports as loaded the resident names and no others, and
\* get_total_memory_usage counts exactly the resident models.
C31_ResidentIffLoaded ==
    /\ \A n \in Names :
          n \in Resident(models) <=> (model_info[n].present /\ model_info[n].is_loaded)
    /\ ReportedLoaded(model_info) = Resident(models)
    /\ get_total_memory_usage(models, model_info) = Resident(models)

\* a load has stored its model and failed on the ModelInfo: the model is
\* resident, list_models does not report it and its memory is not counted
C31_Witness ==
    /\ pc[1] = "idle" /\ last.err = "ValidationError"
    /\ Custom \in Resident(models)
    /\ Custom \notin list_models(model_info)
    /\ Custom \notin get_total_memory_usage(models, model_info)
\* C32: no inference runs on a model that is no longer resident: the model a
\* get_embedding call has picked stays resident, as the same object, until the
\* call completes, the download of an image URL included.
C32_NoInferenceOnEvicted ==
    [][\A t \in Tasks :
          /\ (pc[t] = "fetching" /\ req[t].name \in Resident(models)) =>
                /\ req[t].name \in Resident(models')
                /\ Lookup(models', req[t].name) = Lookup(models, req[t].name)
          /\ (pc[t] = "fetching" /\ pc'[t] = "idle" /\ last'.status = "ok") =>
                /\ req[t].name \in Resident(models)
                /\ Lookup(models, req[t].name).id = last'.vec.id]_vars

\* an embedding was returned by a model object that is not resident, and no
\* call is under way
C32_Witness ==
    /\ \A t \in Tasks : pc[t] \in {"idle", "pending"}
    /\ last.status = "ok" /\ last.vec.count = 1 /\ last.vec.width = 384
    /\ MiniLM \notin Resident(models)
    /\ \A i \in DOMAIN models : models[i].data.id # last.vec.id
\* C33: a model loaded by the CLIP branch with one of its processors, and
\* moved to the device, gets its dimension from the first source available:
\* a size field of the configuration, else the test encoding of one text,
\* else the dimension of the registry, else 512; and the load succeeds
\* whichever source is used.
C33_DimensionSources ==
    (NativeLoad /\ lin.env.clip /\ lin.env.slow /\ lin.env.to_device) =>
       /\ lout.ok /\ lout.data.model = CLIP_MODEL
       /\ lout.data.dimensions =
             IF lin.env.dimsrc = "config" THEN Hub[lin.name].config_dim
             ELSE IF lin.env.dimsrc = "probe" THEN Hub[lin.name].out_dim
             ELSE IF InRegistry(lin.name) THEN available_models[lin.name].dimensions
             ELSE 512

\* the configuration has no size field and the test encoding gave the width
\* of the vectors, which is not the size the configuration of the text tower
\* would have given
C33_Witness ==
    /\ NativeLoad /\ lin.name = OddClip /\ lin.env.dimsrc = "probe"
    /\ lout.ok /\ lout.data.dimensions = 768
    /\ lout.data.dimensions # Hub[OddClip].config_dim
\* the strategy that loaded the model: that of the last attempt, the
\* processors belonging to the CLIP model
LoadedBy(attempts) ==
    LET s == attempts[Len(attempts)].s
    IN  IF s \in {PROCESSOR_FAST, PROCESSOR_SLOW} THEN CLIP_MODEL ELSE s

\* C34: the inference path of a loaded model is fixed by what the load
\* recorded: every get_embedding call that returns vectors of the entry a
\* load stored has run through the path of the strategy that loaded the
\* model (open_clip, SentenceTransformer or the CLIP model), which is also
\* the path of the call that returned before it.
C34_PathOfLoadingStrategy ==
    [][(pc[1] = "embedding" /\ pc'[1] = "idle" /\ last'.status = "ok") =>
          /\ last'.vec.backend = LoadedBy(lout.attempts)
          /\ (last.status = "ok" /\ last.vec.backend # None) =>
                last'.vec.backend = last.vec.backend]_vars

\* the CLIP model loaded but no processor did and SentenceTransformer loaded
\* the model; one call on the entry has returned vectors through encode,
\* and a call with an image has found the entry and is at the if-chain
C34_Witness ==
    /\ NativeLoad /\ lout.ok /\ Len(lout.attempts) = 4
    /\ LoadedBy(lout.attempts) = ST
    /\ last.status = "ok" /\ last.vec.backend = ST /\ last.vec.count = 1
    /\ pc[1] = "embedding" /\ req[1].ctype = IMAGE /\ req[1].content = <<"b64">>
    /\ Len(models) = 1 /\ models[1].name = lin.name
    /\ ~is_open_clip(models[1].data) /\ HasEncode(models[1].data)
\* C35: get_embedding with a content type that is neither text nor image
\* fails without touching the cache: it starts no load (so evicts nothing),
\* and the step that raises leaves the models and their recency as they were.
C35_UnsupportedKindNoEffect ==
    [][\A t \in Tasks :
          (req[t].op = "get_embedding" /\ req[t].ctype \notin {TEXT, IMAGE}) =>
             /\ StartsNow(t) => pc'[t] # "ensuring"
             /\ pc[t] = "embedding" =>
                   /\ models' = models
                   /\ last_used' = last_used
                   /\ model_info' = model_info]_vars

\* the call has failed on its content type after the model was loaded for it
\* at the price of another one
C35_Witness ==
    /\ pc[1] = "idle" /\ last.err = "unsupported_content_type"
    /\ capacity = 1 /\ Len(models) = 1
    /\ \E n \in Names : model_info[n].present /\ ~model_info[n].is_loaded
\* the evictions _ensure_memory_available owes on a cache of `size` models
Owed(size, cap) == IF size - cap + 1 > 0 THEN size - cap + 1 ELSE 0

\* C37: with a capacity of at least 1 the loop of _ensure_memory_available
\* goes on exactly while it has evicted fewer than max(0, size - capacity + 1)
\* models of the cache it found, each turn evicts the least recently used
\* model and keeps the others in their order, and so it ends after that many
\* turns, with the cache it found less its least recently used end.
C37_EnsureCapacity ==
    [][\A t \in Tasks :
          (capacity >= 1 /\ pc[t] = "ensuring") =>
             LET found == at_entry.models
                 owed == Owed(Len(found), capacity)
                 evicted == Len(found) - Len(models)
             IN  /\ at_entry.taken
                 /\ evicted \in 0..owed
                 /\ models = SubSeq(found, evicted + 1, Len(found))
                 /\ MustEvict(models, capacity) <=> evicted < owed
                 /\ pc'[t] = "ensuring" => (models # <<>> /\ models' = Tail(models))
                 /\ pc'[t] # "ensuring" =>
                       /\ pc'[t] = "loading" /\ evicted = owed
                       /\ models' = SubSeq(found, owed + 1, Len(found))]_vars

\* the loop has ended on a full cache of two models after one eviction: the
\* more recently used of the two is left
C37_Witness ==
    /\ pc[1] = "loading" /\ capacity = 2
    /\ at_entry.taken /\ Len(at_entry.models) = 2
    /\ Owed(Len(at_entry.models), capacity) = 1
    /\ models = <<at_entry.models[2]>>
\* C38: after any sequence of save_vector_column_settings calls the table
\* holds at most one row for a table and column, and after a save that
\* succeeded the table holds the row of that save: its table, its column,
\* its model and the cell of its combined fields.
C38_OneRowPerColumn ==
    sout.proxied = 0 =>
    /\ \A i, j \in DOMAIN sout.rows :
          (/\ sout.rows[i].tbl_name = sout.rows[j].tbl_name
           /\ sout.rows[i].col_name = sout.rows[j].col_name) => i = j
    /\ (sin.done /\ sout.ok) =>
          \E i \in DOMAIN sout.rows :
             sout.rows[i] = Row(sin.table_name, sin.column_name, sin.model_name,
                                Cell(combined_fields_value(sin.combined_fields), sin.db))

\* the second save for a column was inserted next to the first: the table
\* holds two rows for the column, the first with the model of the earlier
\* save and the second with the model and the fields of the save that ended
\* last
C38_Witness ==
    /\ sout.proxied = 0
    /\ sin.done /\ sout.ok /\ sin.db.insert
    /\ Len(sout.rows) = 2
    /\ sout.rows[1].tbl_name = sout.rows[2].tbl_name
    /\ sout.rows[1].col_name = sout.rows[2].col_name
    /\ sout.rows[1].mdl_name # sout.rows[2].mdl_name
    /\ sout.rows[2] = Row(sin.table_name, sin.column_name, sin.model_name,
                          Cell(combined_fields_value(sin.combined_fields), sin.db))
    /\ sin.combined_fields = WEIGHTS
\* C39: when stage 1 of a recommendation request rejects it, the caller gets
\* the status stage 1 raised: 404 for a table without vector columns, for an
\* unknown column and for a missing document, 400 for a vector or an id that
\* is malformed, 501 for a text input.
C39_Stage1StatusReachesCaller ==
    (gin.done /\ gout.stage1.raised) =>
       /\ gout.response.raised
       /\ gout.response.status_code = gout.stage1.status_code

\* stage 1 raised 404 for a table without vector columns and the caller got
\* 500
C39_Witness ==
    /\ gin.done /\ gin.vector_columns = <<>>
    /\ gout.stage1 = HTTPException(404)
    /\ gout.response = HTTPException(500)
\* the model and the content type of every field of a request, in the order
\* of the request
FieldCalls(fields) ==
    [i \in DOMAIN fields |-> [name |-> ModelFor(fields[i]), ctype |-> fields[i].type]]

\* C36: a multi-field request calls get_embedding once for each field, in
\* the order of the fields, and hands the combiner the vectors and the
\* weights in that order; whatever the capacity (at least 1) and however many
\* models the fields name, the request fails only when a load fails or, all
\* vectors being there, when the combiner does not know the method asked for.
C36_OneCallPerFieldInOrder ==
    fin.kind = "multi_field" =>
       LET owed == FieldCalls(fin.fields)
       IN  /\ Len(fin.calls) <= Len(owed)
           /\ fin.calls = SubSeq(owed, 1, Len(fin.calls))
           /\ Len(fin.embeddings) <= Len(fin.calls)
           /\ Len(fin.weights) = Len(fin.embeddings)
           /\ \A i \in DOMAIN fin.embeddings :
                 /\ fin.embeddings[i].width = Hub[owed[i].name].out_dim
                 /\ fin.embeddings[i].count = 1
                 /\ fin.weights[i] = fin.fields[i].weight
           /\ (fout.done /\ fout.ok) =>
                 /\ fin.calls = owed
                 /\ Len(fin.embeddings) = Len(owed)
                 /\ fout.count = Len(owed)
           /\ (fout.done /\ ~fout.ok) =>
                 \/ fout.err = "load_failed"
                 \/ /\ fout.err = "Unsupported combine method"
                    /\ fin.combine_method \notin {WEIGHTED_AVERAGE, CONCATENATE}
                    /\ fin.calls = owed /\ Len(fin.embeddings) = Len(owed)

\* a cache of one model has served a request of two fields with two models
\* and two weights
C36_Witness ==
    /\ fin.kind = "multi_field" /\ fout.done /\ fout.ok
    /\ fin.combine_method = WEIGHTED_AVERAGE /\ fin.normalize
    /\ capacity = 1 /\ Len(fin.fields) = 2
    /\ fin.calls[1].name # fin.calls[2].name
    /\ fin.weights = <<2, 1>>
    /\ fin.embeddings[1].width # fin.embeddings[2].width

\* a text request with a text longer than settings.max_text_length, a batch
\* of more than settings.max_batch_size requests
Oversized(r) ==
    \/ r.kind = "text" /\ \E i \in DOMAIN r.texts : r.texts[i] > max_text_length
    \/ r.kind = "batch" /\ r.size > max_batch_size

\* C40: a text request with a text that is too long and a batch of too many
\* requests are rejected in the first step of the service, before any call
\* to the manager: no model is loaded, evicted or marked as used.
C40_RejectedBeforeCache ==
    [][Oversized(fin) =>
          /\ fin.calls = <<>> /\ pc[1] = "idle"
          /\ fin.stage = "new" =>
                /\ fin'.stage = "done" /\ fin'.calls = <<>>
                /\ fout'.done /\ ~fout'.ok
          /\ models' = models
          /\ model_info' = model_info
          /\ last_used' = last_used
          /\ pc' = pc]_vars

\* a request whose second text is too long was rejected on a cache of two
\* models, nothing having been called
C40_Witness ==
    /\ fin.kind = "text" /\ fin.stage = "done"
    /\ Len(fin.texts) = 2 /\ fin.texts[1] <= max_text_length
    /\ fin.texts[2] > max_text_length
    /\ fout.done /\ ~fout.ok /\ fout.err = "Text length exceeds maximum"
    /\ fin.calls = <<>> /\ Len(models) = 2 /\ last = NoRet
====
